---------------------------- MODULE Spec2Model ----------------------------
(***************************************************************************)
(* Verification model of zwave-js/log-analyzer: the log transformation    *)
(* pipeline (src/lib/log-processor/index.ts), the query engine            *)
(* (src/lib/log-query-engine.ts) and the loading of logs by the MCP       *)
(* server core (src/lib/zwave-mcp-server-core.ts).                        *)
(*                                                                         *)
(* JavaScript strings are TLA+ strings (sequences of characters): Len,     *)
(* \o and SubSeq are the string's length, concatenation and slice.         *)
(***************************************************************************)
EXTENDS Integers, Sequences, FiniteSets, TLC

VARIABLES
    \* ---- CompleteLogEntries (index.ts:24-89)
    content,          \* the whole text written to the stream
    pos,              \* number of characters of content delivered so far
    receiveBuffer,    \* index.ts:27
    lines,            \* index.ts:26
    enqueued,         \* records handed to controller.enqueue, in order
    transformCount,   \* how many of them were enqueued by transform() calls
    closed,           \* flush() has run
    \* ---- the stages between the splitter and the merger (index.ts:1063-1068)
    consumed,         \* how many records of enqueued the unformatter has taken
    parseQueue,       \* enqueued by UnformatLogEntry, not yet taken by ParseNestedStructures
    filterQueue,      \* enqueued by ParseNestedStructures, not yet taken by FilterLogEntries
    classifyQueue,    \* enqueued by FilterLogEntries, not yet taken by ClassifyLogEntry
    detectQueue,      \* enqueued by ClassifyLogEntry, not yet taken by the merger
    classifyIn,       \* the chunks given to ClassifyLogEntry so far, in order
    classifyOut,      \* for each of them, the events its transform() enqueued
    \* ---- DetectBackgroundRSSICalls (index.ts:766-868)
    written,          \* the events written to the merger so far, in order
    pendingRequest,   \* index.ts:771; <<>> is undefined, <<e>> a pending request
    bufferedEntries,  \* index.ts:772
    upstreamClosed,   \* the merger's flush() has run: the aggregator's input has ended
    \* ---- AggregateBackgroundRSSI (index.ts:871-1031)
    rssiQueue,        \* events enqueued for the aggregator, not yet transformed
    aggregated,       \* the events handed to the aggregator so far, in order
    bufferedRSSIEntries, \* index.ts:876
    aggregateClosed,  \* the aggregator's flush() has run
    \* ---- the WritableStream that collects the pipeline's output
    entries,          \* index.ts:1036
    \* ---- LogQueryEngine (log-query-engine.ts:511-1619)
    queryEngine,      \* <<>> before an engine is built, else <<engine>>
    result,           \* <<>>, or <<query, value>>: the last query and what it returned
    summary,          \* <<>>, or <<value>>: what the first getLogSummary() returned
    \* ---- ZWaveLogMCPServerCore (zwave-mcp-server-core.ts:15-72)
    loads,            \* the calls of loadLogFileFromPath/Content so far, in order
    \* ---- the CallTool request handler (zwave-mcp-server-core.ts:363-652)
    calls             \* the loadLogFile tool calls: those about to resume, those finished

splitVars == <<content, pos, receiveBuffer, lines, enqueued, transformCount, closed>>

detectVars == <<written, pendingRequest, bufferedEntries, upstreamClosed>>

aggregateVars == <<rssiQueue, aggregated, bufferedRSSIEntries, aggregateClosed, entries>>

stageVars == <<consumed, parseQueue, filterQueue, classifyQueue, detectQueue,
               classifyIn, classifyOut>>

engineVars == <<queryEngine, result, summary>>

serverVars == <<loads, calls>>

vars == <<splitVars, stageVars, detectVars, aggregateVars, engineVars, serverVars>>

\* the parts of the state a specification does not use stay as constructed
SplitIdle ==
    /\ content = "" /\ pos = 0 /\ receiveBuffer = "" /\ lines = <<>>
    /\ enqueued = <<>> /\ transformCount = 0 /\ closed = FALSE

DetectIdle ==
    /\ written = <<>> /\ pendingRequest = <<>> /\ bufferedEntries = <<>>
    /\ upstreamClosed = FALSE

AggregateIdle ==
    /\ rssiQueue = <<>> /\ aggregated = <<>> /\ bufferedRSSIEntries = <<>>
    /\ aggregateClosed = FALSE /\ entries = <<>>

StagesIdle ==
    /\ consumed = 0 /\ parseQueue = <<>> /\ filterQueue = <<>> /\ classifyQueue = <<>>
    /\ detectQueue = <<>> /\ classifyIn = <<>> /\ classifyOut = <<>>

NoCalls == [pending |-> <<>>, done |-> <<>>]

EngineIdle ==
    /\ queryEngine = <<>> /\ result = <<>> /\ summary = <<>> /\ loads = <<>>
    /\ calls = NoCalls

(***************************************************************************)
(* Bounds                                                                  *)
(***************************************************************************)
MaxLines == 3
\* events written to the RSSI merger
MaxEvents == 4
\* events written to the RSSI aggregator on its own
MaxAggEvents == 4

(***************************************************************************)
(* Strings as character sequences                                          *)
(***************************************************************************)
NL == "\n"

\* s[i - 1] of the code (positions are 1-based here)
CharAt(s, i) == SubSeq(s, i, i)

Digits == "0123456789"

IsDigit(c) == \E i \in 1..10 : CharAt(Digits, i) = c

\* String.prototype.split("\n")
RECURSIVE SplitNL(_)
SplitNL(s) ==
    IF \A i \in 1..Len(s) : CharAt(s, i) # NL
    THEN <<s>>
    ELSE LET i == CHOOSE j \in 1..Len(s) :
                      CharAt(s, j) = NL /\ \A k \in 1..(j - 1) : CharAt(s, k) # NL
         IN  <<SubSeq(s, 1, i - 1)>> \o SplitNL(SubSeq(s, i + 1, Len(s)))

\* Array.prototype.join("\n")
RECURSIVE JoinNL(_)
JoinNL(ls) ==
    IF Len(ls) = 0 THEN ""
    ELSE IF Len(ls) = 1 THEN ls[1]
    ELSE ls[1] \o NL \o JoinNL(Tail(ls))

\* The shape of /^\d{4}-\d{2}-\d{2} \d{2}:\d{2}:\d{2}\.\d{3}/ ("d" is \d)
TimestampShape == "dddd-dd-dd dd:dd:dd.ddd"

\* TIMESTAMP_REGEX.test(line)
TIMESTAMP_REGEX(line) ==
    /\ Len(line) >= Len(TimestampShape)
    /\ \A i \in 1..Len(TimestampShape) :
          IF CharAt(TimestampShape, i) = "d" THEN IsDigit(CharAt(line, i))
          ELSE CharAt(line, i) = CharAt(TimestampShape, i)

(***************************************************************************)
(* CompleteLogEntries                                                      *)
(***************************************************************************)
\* startIndizes (0-based in the code, 1-based here)
StartIndizes(ls) == {i \in 1..Len(ls) : TIMESTAMP_REGEX(ls[i])}

\* the k-th smallest element of a finite set of integers
RECURSIVE NthSmallest(_, _)
NthSmallest(S, k) ==
    LET m == CHOOSE x \in S : \A y \in S : x <= y
    IN  IF k = 1 THEN m ELSE NthSmallest(S \ {m}, k - 1)

MaxOf(S) == CHOOSE x \in S : \A y \in S : y <= x

\* the entries enqueueCompleteEntries hands to the controller
CompleteEntries(ls) ==
    LET st == StartIndizes(ls)
        n  == Cardinality(st)
    IN  IF n <= 1 THEN <<>>
        ELSE [i \in 1..(n - 1) |->
                JoinNL(SubSeq(ls, NthSmallest(st, i), NthSmallest(st, i + 1) - 1))]

\* the lines left after lines.splice(0, startIndizes.at(-1))
RemainingLines(ls) ==
    LET st == StartIndizes(ls)
    IN  IF Cardinality(st) <= 1 THEN ls
        ELSE SubSeq(ls, MaxOf(st), Len(ls))

\* a splitter that keeps only the last chunk of a line still incomplete
Transform_ForgetsPartialLine(k) ==
    /\ ~closed
    /\ pos + k <= Len(content)
    /\ LET chunk    == SubSeq(content, pos + 1, pos + k)
           buf      == receiveBuffer \o chunk
           newLines == SplitNL(buf)
           ls       == IF Len(newLines) > 1
                       THEN lines \o SubSeq(newLines, 1, Len(newLines) - 1)
                       ELSE lines
           out      == CompleteEntries(ls)
       IN  /\ receiveBuffer' = IF Len(newLines) > 1
                               THEN newLines[Len(newLines)] ELSE chunk
           /\ lines' = RemainingLines(ls)
           /\ enqueued' = enqueued \o out
           /\ transformCount' = transformCount + Len(out)
    /\ pos' = pos + k
    /\ UNCHANGED <<content, closed>>

\* transformer.transform(chunk, controller), chunk = the next k characters
Transform(k) ==
    /\ ~closed
    /\ pos + k <= Len(content)
    /\ LET chunk    == SubSeq(content, pos + 1, pos + k)
           buf      == receiveBuffer \o chunk
           newLines == SplitNL(buf)
           ls       == IF Len(newLines) > 1
                       THEN lines \o SubSeq(newLines, 1, Len(newLines) - 1)
                       ELSE lines
           out      == CompleteEntries(ls)
       IN  /\ receiveBuffer' = IF Len(newLines) > 1
                               THEN newLines[Len(newLines)] ELSE buf
           /\ lines' = RemainingLines(ls)
           /\ enqueued' = enqueued \o out
           /\ transformCount' = transformCount + Len(out)
    /\ pos' = pos + k
    /\ UNCHANGED <<content, closed>>

\* transformer.flush(controller): runs once, when the input is exhausted
Flush ==
    /\ ~closed
    /\ pos = Len(content)
    /\ LET out  == CompleteEntries(lines)
           rest == RemainingLines(lines)
           ls   == IF Len(receiveBuffer) > 0 THEN Append(rest, receiveBuffer)
                   ELSE rest
       IN  /\ lines' = ls
           /\ enqueued' = enqueued \o out \o
                            (IF Len(ls) > 0 THEN <<JoinNL(ls)>> ELSE <<>>)
    /\ closed' = TRUE
    /\ UNCHANGED <<content, pos, receiveBuffer, transformCount>>

(***************************************************************************)
(* Input texts of the splitter: every sequence of 1..MaxLines lines, each  *)
(* a timestamp line or a continuation line, with or without a final        *)
(* newline.  Line i carries the digit i, so that lines are distinguishable.*)
(***************************************************************************)
SampleTimestamp == "2024-01-01 00:00:00.000"

LineOf(kind, i) ==
    IF kind = "T" THEN SampleTimestamp \o " L" \o CharAt(Digits, i + 1)
    ELSE "  c" \o CharAt(Digits, i + 1)

Shapes == UNION {[1..n -> {"T", "C"}] : n \in 1..MaxLines}

TextOf(shape, finalNewline) ==
    JoinNL([i \in 1..Len(shape) |-> LineOf(shape[i], i)])
        \o (IF finalNewline THEN NL ELSE "")

Texts == {TextOf(sh, nl) : sh \in Shapes, nl \in BOOLEAN}

\* the rest of the state
exceptSplit == <<stageVars, detectVars, aggregateVars, engineVars, serverVars>>

\* the stream calls transform() with the next k characters
SplitTransform(k) == Transform(k) /\ UNCHANGED exceptSplit

\* the stream calls flush() at the end of the input
SplitFlush == Flush /\ UNCHANGED exceptSplit

SplitInit ==
    /\ content \in Texts
    /\ pos = 0
    /\ receiveBuffer = ""
    /\ lines = <<>>
    /\ enqueued = <<>>
    /\ transformCount = 0
    /\ closed = FALSE
    /\ StagesIdle
    /\ DetectIdle
    /\ AggregateIdle
    /\ EngineIdle

SplitNext ==
    \/ \E k \in 1..(Len(content) - pos) : SplitTransform(k)
    \/ SplitFlush

SplitSpec == SplitInit /\ [][SplitNext]_vars

(***************************************************************************)
(* Claims about the splitter                                               *)
(***************************************************************************)
\* the lines of a text (a final newline ends the last line, it starts none)
TextLines(t) ==
    LET ls == SplitNL(t)
    IN  IF Len(ls) > 1 /\ Len(ls[Len(ls)]) = 0
        THEN SubSeq(ls, 1, Len(ls) - 1) ELSE ls

\* the records of a text: each timestamp line with the lines up to the next
RecordsOf(t) ==
    LET ls == TextLines(t)
        st == StartIndizes(ls)
        n  == Cardinality(st)
    IN  [i \in 1..n |->
            JoinNL(SubSeq(ls, NthSmallest(st, i),
                          IF i < n THEN NthSmallest(st, i + 1) - 1 ELSE Len(ls)))]

\* a text of two or more records, the first line being a timestamp line
WellFormed(t) ==
    /\ TIMESTAMP_REGEX(TextLines(t)[1])
    /\ Len(RecordsOf(t)) >= 2

IsPrefix(s, t) == Len(s) <= Len(t) /\ SubSeq(t, 1, Len(s)) = s

\* C1: for a text of N >= 2 records, delivered in any chunking, the splitter
\* emits exactly the N records in input order: only the first N-1 before the
\* end of the stream (all of them by transform calls), the N-th at flush.
C1_EmitsEveryRecord ==
    WellFormed(content) =>
        LET N == Len(RecordsOf(content))
        IN  /\ IsPrefix(enqueued, RecordsOf(content))
            /\ ~closed => Len(enqueued) <= N - 1
            /\ closed => enqueued = RecordsOf(content) /\ transformCount = N - 1

\* C7: at the end of the stream the emitted records, joined by newlines,
\* are the input text (up to the newline ending its last line), and no line
\* sits in a wrong record: each record starts with a timestamp line and
\* holds no second one.
C7_JoinReconstructsText ==
    (closed /\ WellFormed(content)) =>
        /\ JoinNL(enqueued) = JoinNL(TextLines(content))
        /\ \A i \in 1..Len(enqueued) :
              StartIndizes(SplitNL(enqueued[i])) = {1}

(***************************************************************************)
(* String methods                                                          *)
(***************************************************************************)
DigitVal(c) == CHOOSE v \in 0..9 : CharAt(Digits, v + 1) = c

\* the value of a string of decimal digits
RECURSIVE ParseDigits(_)
ParseDigits(s) ==
    IF Len(s) = 0 THEN 0
    ELSE ParseDigits(SubSeq(s, 1, Len(s) - 1)) * 10 + DigitVal(CharAt(s, Len(s)))

Min(a, b) == IF a <= b THEN a ELSE b

Max(a, b) == IF a >= b THEN a ELSE b

StartsWith(s, p) == Len(p) <= Len(s) /\ SubSeq(s, 1, Len(p)) = p

EndsWith(s, p) == Len(p) <= Len(s) /\ SubSeq(s, Len(s) - Len(p) + 1, Len(s)) = p

\* s.indexOf(p): the 0-based index of the first occurrence, -1 if there is none
IndexOf(s, p) ==
    LET at == {i \in 0..(Len(s) - Len(p)) : SubSeq(s, i + 1, i + Len(p)) = p}
    IN  IF at = {} THEN -1 ELSE CHOOSE i \in at : \A j \in at : i <= j

Includes(s, p) == IndexOf(s, p) # -1

\* s.slice(start, end) with 0-based, possibly negative, indices
Slice(s, start, end) ==
    LET norm(i) == IF i < 0 THEN Max(Len(s) + i, 0) ELSE Min(i, Len(s))
    IN  SubSeq(s, norm(start) + 1, norm(end))

SliceFrom(s, start) == Slice(s, start, Len(s))

IsWhitespace(c) == c = " " \/ c = "\t" \/ c = "\n" \/ c = "\r"

RECURSIVE TrimStart(_)
TrimStart(s) ==
    IF Len(s) > 0 /\ IsWhitespace(CharAt(s, 1)) THEN TrimStart(Tail(s)) ELSE s

RECURSIVE TrimEnd(_)
TrimEnd(s) ==
    IF Len(s) > 0 /\ IsWhitespace(CharAt(s, Len(s)))
    THEN TrimEnd(SubSeq(s, 1, Len(s) - 1)) ELSE s

Trim(s) == TrimEnd(TrimStart(s))

\* parseInt(text, 10) for a text that, after leading whitespace, starts with
\* an optional sign and at least one digit
parseInt(text) ==
    LET t    == TrimStart(text)
        neg  == CharAt(t, 1) = "-"
        from == IF neg \/ CharAt(t, 1) = "+" THEN 2 ELSE 1
        to   == CHOOSE j \in (from - 1)..Len(t) :
                    /\ \A i \in from..j : IsDigit(CharAt(t, i))
                    /\ j = Len(t) \/ ~IsDigit(CharAt(t, j + 1))
        abs  == ParseDigits(SubSeq(t, from, to))
    IN  IF neg THEN 0 - abs ELSE abs

\* /^\d+$/.test(s)
AllDigits(s) == Len(s) > 0 /\ \A i \in 1..Len(s) : IsDigit(CharAt(s, i))

IsString(v) == "str" \in DOMAIN v

HasKey(obj, key) == key \in DOMAIN obj

\* String(n) for an integer n
RECURSIVE NumberText(_)
NumberText(n) ==
    IF n < 0 THEN "-" \o NumberText(0 - n)
    ELSE IF n < 10 THEN CharAt(Digits, n + 1)
    ELSE NumberText(n \div 10) \o CharAt(Digits, (n % 10) + 1)

\* s without the characters c at its end
RECURSIVE StripEnd(_, _)
StripEnd(s, c) ==
    IF Len(s) > 0 /\ CharAt(s, Len(s)) = c THEN StripEnd(SubSeq(s, 1, Len(s) - 1), c) ELSE s

\* parseFloat(rawValue) for digits "." digits: a whole number, or the
\* decimal text String() gives for the number
ParseFloat(rawValue) ==
    LET dot      == IndexOf(rawValue, ".")
        whole    == ParseDigits(Slice(rawValue, 0, dot))
        fraction == StripEnd(SliceFrom(rawValue, dot + 1), "0")
    IN  IF fraction = "" THEN [num |-> whole]
        ELSE [float |-> NumberText(whole) \o "." \o fraction]

\* a value of type string | number | boolean is [str |-> s], [num |-> n]
\* for a whole number, [float |-> decimal text] for another number, or
\* [bool |-> b]
tryParseValue(rawValue) ==
    IF AllDigits(rawValue) THEN [num |-> ParseDigits(rawValue)]
    ELSE IF /\ IndexOf(rawValue, ".") > 0
            /\ AllDigits(Slice(rawValue, 0, IndexOf(rawValue, ".")))
            /\ AllDigits(SliceFrom(rawValue, IndexOf(rawValue, ".") + 1))
         THEN ParseFloat(rawValue)
    ELSE IF rawValue = "true" \/ rawValue = "false" THEN [bool |-> rawValue = "true"]
    ELSE [str |-> rawValue]

(***************************************************************************)
(* Timestamps                                                              *)
(***************************************************************************)
\* new Date(timestamp).getTime() for "YYYY-MM-DD HH:MM:SS.mmm": the time
\* value in milliseconds, counted from the first day of the timestamp's
\* month (the logs of the model lie within one month; the code only
\* compares and subtracts time values)
parseTimestamp(timestamp) ==
    ((((ParseDigits(SubSeq(timestamp, 9, 10)) - 1) * 24
        + ParseDigits(SubSeq(timestamp, 12, 13))) * 60
        + ParseDigits(SubSeq(timestamp, 15, 16))) * 60
        + ParseDigits(SubSeq(timestamp, 18, 19))) * 1000
        + ParseDigits(SubSeq(timestamp, 21, 23))

\* the timestamp string of the log line written ms milliseconds after
\* 2024-01-01 00:00:00.000 (within the first hour)
TimestampAt(ms) ==
    LET d(n) == CharAt(Digits, n + 1)
        min  == ms \div 60000
        sec  == (ms \div 1000) % 60
        frac == ms % 1000
    IN  "2024-01-01 00:" \o d(min \div 10) \o d(min % 10) \o ":"
            \o d(sec \div 10) \o d(sec % 10) \o "."
            \o d(frac \div 100) \o d((frac \div 10) % 10) \o d(frac % 10)

(***************************************************************************)
(* UnformatLogEntry                                                        *)
(***************************************************************************)
\* the loop over tagRegex /^\[([^\]]+)\]\s?/ (index.ts:124-130): the tags
\* taken from the front of the line, and what is left of the line
RECURSIVE PrimaryTags(_)
PrimaryTags(rest) ==
    LET close == IndexOf(rest, "]")
    IN  IF StartsWith(rest, "[") /\ close >= 2
        THEN LET after == SliceFrom(rest, close + 1)
                 next  == IF Len(after) > 0 /\ IsWhitespace(CharAt(after, 1))
                          THEN Tail(after) ELSE after
                 more  == PrimaryTags(next)
             IN  [tags |-> <<Slice(rest, 1, close)>> \o more.tags, rest |-> more.rest]
        ELSE [tags |-> <<>>, rest |-> rest]

\* rest.match(/\(([^)]+)\)$/)?.[1], <<>> when there is no match
SecondaryTags(rest) ==
    LET opens == {i \in 0..(Len(rest) - 3) :
                     /\ CharAt(rest, i + 1) = "("
                     /\ ~Includes(Slice(rest, i + 1, -1), ")")}
    IN  IF EndsWith(rest, ")") /\ opens # {}
        THEN <<Slice(rest, (CHOOSE i \in opens : \A j \in opens : i <= j) + 1, -1)>>
        ELSE <<>>

\* the elements of ls that satisfy line.length > 0
NonEmptyLines(ls) == SelectSeq(ls, LAMBDA line : Len(line) > 0)

\* index.ts:144-167: the info made of the parts of the first line, the
\* last tag being the message when nothing else is left of the line
UnformattedLogInfo(otherLines, timestamp, label, direction, tags, secondaryTags, afterTags) ==
    LET popLast     == Len(tags) > 0 /\ afterTags = ""
        indentation == Len(timestamp) + 1 + Len(label) + 3
        restOfFirstLine == IF popLast THEN "[" \o tags[Len(tags)] \o "]" ELSE afterTags
        keys == {"timestamp", "label", "direction", "message"}
                   \cup (IF Len(tags) > (IF popLast THEN 1 ELSE 0) THEN {"primaryTags"} ELSE {})
                   \cup (IF secondaryTags # <<>> THEN {"secondaryTags"} ELSE {})
    IN  [k \in keys |->
            IF k = "timestamp" THEN timestamp
            ELSE IF k = "label" THEN label
            ELSE IF k = "direction" THEN direction
            ELSE IF k = "message"
            THEN [str |-> JoinNL(NonEmptyLines(<<restOfFirstLine>>
                     \o [i \in 1..Len(otherLines) |-> SliceFrom(otherLines[i], indentation)]))]
            ELSE IF k = "primaryTags"
            THEN IF popLast THEN SubSeq(tags, 1, Len(tags) - 1) ELSE tags
            ELSE secondaryTags[1]]

\* index.ts:133-139: the secondary tags are cut from the end of the line
UnformatSecondaryTags(otherLines, timestamp, label, direction, tagged, secondaryTags) ==
    UnformattedLogInfo(otherLines, timestamp, label, direction, tagged.tags, secondaryTags,
        IF secondaryTags = <<>> THEN tagged.rest
        ELSE Trim(Slice(tagged.rest, 0, 0 - Len(secondaryTags[1]) - 2)))

\* index.ts:122-131: the primary tags are taken from the front of the line
UnformatTags(otherLines, timestamp, label, direction, tagged) ==
    UnformatSecondaryTags(otherLines, timestamp, label, direction, tagged,
                          SecondaryTags(tagged.rest))

\* index.ts:112-120: the direction the arrow names
DirectionOf(restOfFirstLine) ==
    IF StartsWith(restOfFirstLine, "« ") THEN "inbound"
    ELSE IF StartsWith(restOfFirstLine, "» ") THEN "outbound"
    ELSE "none"

\* index.ts:112-120: the direction arrow is taken from the front of the line
UnformatDirection(otherLines, timestamp, label, direction, restOfFirstLine) ==
    UnformatTags(otherLines, timestamp, label, direction,
        PrimaryTags(IF direction = "none" THEN restOfFirstLine
                    ELSE Trim(SliceFrom(restOfFirstLine, 2))))

\* index.ts:104-110: the label is the first word after the timestamp
UnformatLabel(otherLines, timestamp, label, restOfFirstLine) ==
    UnformatDirection(otherLines, timestamp, label, DirectionOf(restOfFirstLine),
                      restOfFirstLine)

\* index.ts:105-107: <<>> when no label ends
UnformatFirstLine(otherLines, timestamp, restOfFirstLine, labelEndIndex) ==
    IF labelEndIndex = -1 THEN <<>>
    ELSE <<UnformatLabel(otherLines, timestamp, Slice(restOfFirstLine, 0, labelEndIndex),
                         Trim(SliceFrom(restOfFirstLine, labelEndIndex + 1)))>>

\* index.ts:100-102: <<>> when the first line does not start with a timestamp
UnformatLines(firstLine, otherLines, restOfFirstLine) ==
    IF ~TIMESTAMP_REGEX(firstLine) THEN <<>>
    ELSE UnformatFirstLine(otherLines, SubSeq(firstLine, 1, Len(TimestampShape)),
                           restOfFirstLine, IndexOf(restOfFirstLine, " "))

\* the lines of a chunk: the first, the others, and the first without its
\* timestamp
UnformatChunk(allLines) ==
    UnformatLines(allLines[1], Tail(allLines),
                  Trim(SliceFrom(allLines[1], Len(TimestampShape))))

\* transform(chunk, controller): what it enqueues, <<>> or <<info>>
UnformatLogEntry(chunk) == UnformatChunk(SplitNL(chunk))


(***************************************************************************)
(* ParseNestedStructures.  A LogInfoPayload is a record with the field     *)
(* message and, when present, attributes and nested (a LogInfoPayload).    *)
(* An object with arbitrary string keys, like attributes, is the sequence  *)
(* of its [key, value] entries in insertion order.  The box-drawing        *)
(* characters of the log format are written in ASCII: "|" is the vertical  *)
(* line of an attribute line and "+-" the corner that starts a nested      *)
(* structure.                                                              *)
(***************************************************************************)
BoxVertical == "|"

BoxCorner == "+-"

IsAttributeLine(line) == StartsWith(line, "  ") \/ StartsWith(line, BoxVertical \o " ")

\* the while loop of parseNestedStructure (index.ts:202-216): the raw
\* attribute lines collected, and the lines of the nested structure (with
\* the corner line), <<>> if the loop ends without meeting a corner
RECURSIVE ScanLines(_, _)
ScanLines(ls, attributesRaw) ==
    IF Len(ls) = 0 THEN [attributesRaw |-> attributesRaw, nestedLines |-> <<>>]
    ELSE LET line == Head(ls)
         IN  IF IsAttributeLine(line)
             THEN ScanLines(Tail(ls), Append(attributesRaw, SliceFrom(line, 2)))
             ELSE IF StartsWith(line, BoxCorner)
             THEN [attributesRaw |-> attributesRaw,
                   nestedLines |-> [i \in 1..Len(ls) |-> SliceFrom(ls[i], 2)]]
             ELSE IF Len(attributesRaw) > 0
             THEN ScanLines(Tail(ls),
                            [attributesRaw EXCEPT ![Len(attributesRaw)] = @ \o line])
             ELSE ScanLines(Tail(ls), attributesRaw)

AttributeKey(attr) ==
    IF IndexOf(attr, ":") = -1 THEN Trim(attr) ELSE Trim(Slice(attr, 0, IndexOf(attr, ":")))

AttributeValue(attr) ==
    IF IndexOf(attr, ":") = -1 THEN [str |-> ""]
    ELSE tryParseValue(Trim(SliceFrom(attr, IndexOf(attr, ":") + 1)))

\* obj[key] for an object given by its entries: <<>> for undefined
Get(obj, key) ==
    LET at == {i \in 1..Len(obj) : obj[i].key = key}
    IN  IF at = {} THEN <<>> ELSE <<obj[CHOOSE i \in at : TRUE].value>>

\* key in obj
In(key, obj) == \E i \in 1..Len(obj) : obj[i].key = key

\* delete obj[key]
Delete(obj, key) == SelectSeq(obj, LAMBDA entry : entry.key # key)

\* Object.fromEntries(attributesRaw.map(...)): a key given twice keeps its
\* first place and its last value
AttributesOf(attributesRaw) ==
    LET firsts == SelectSeq([i \in 1..Len(attributesRaw) |-> i],
                            LAMBDA i : \A j \in 1..(i - 1) :
                                AttributeKey(attributesRaw[j]) # AttributeKey(attributesRaw[i]))
        last(key) == CHOOSE i \in 1..Len(attributesRaw) :
                        /\ AttributeKey(attributesRaw[i]) = key
                        /\ \A j \in (i + 1)..Len(attributesRaw) :
                              AttributeKey(attributesRaw[j]) # key
    IN  [n \in 1..Len(firsts) |->
            [key |-> AttributeKey(attributesRaw[firsts[n]]),
             value |-> AttributeValue(attributesRaw[last(AttributeKey(attributesRaw[firsts[n]]))])]]

\* parseNestedStructure(lines): <<>> for undefined, <<payload>> otherwise
RECURSIVE parseNestedStructure(_)
parseNestedStructure(ls) ==
    IF Len(ls) < 1 \/ ~StartsWith(ls[1], "[") \/ ~EndsWith(ls[1], "]") THEN <<>>
    ELSE LET scan   == ScanLines(Tail(ls), <<>>)
             nested == IF scan.nestedLines = <<>> THEN <<>>
                       ELSE parseNestedStructure(scan.nestedLines)
         IN  <<[k \in {"message"}
                     \cup (IF Len(scan.attributesRaw) > 0 THEN {"attributes"} ELSE {})
                     \cup (IF nested # <<>> THEN {"nested"} ELSE {}) |->
                  IF k = "message" THEN ls[1]
                  ELSE IF k = "attributes" THEN AttributesOf(scan.attributesRaw)
                  ELSE nested[1]]>>

\* transform(chunk, controller): the chunk it enqueues
ParseNestedStructures(chunk) ==
    IF ~IsString(chunk.message) \/ ~Includes(chunk.message.str, NL) THEN chunk
    ELSE LET ls == SplitNL(chunk.message.str)
         IN  IF Len(ls) < 2 \/ ~StartsWith(ls[1], "[") \/ ~EndsWith(ls[1], "]") THEN chunk
             ELSE [chunk EXCEPT !.message = parseNestedStructure(ls)[1]]

(***************************************************************************)
(* FilterLogEntries                                                        *)
(***************************************************************************)
\* chunk.primaryTags?.includes(tag)
HasTag(chunk, tag) ==
    /\ "primaryTags" \in DOMAIN chunk
    /\ \E i \in 1..Len(chunk.primaryTags) : chunk.primaryTags[i] = tag

\* transform(chunk, controller): what it enqueues, <<>> or <<chunk>>
FilterLogEntries(chunk) ==
    IF /\ chunk.label = "DRIVER"
       /\ chunk.direction = "none"
       /\ IsString(chunk.message)
       /\ (EndsWith(chunk.message.str, "queues busy") \/ EndsWith(chunk.message.str, "queues idle"))
    THEN <<>>
    ELSE IF chunk.label = "SERIAL" THEN <<>>
    ELSE IF /\ chunk.label = "CNTRLR"
            /\ ~IsString(chunk.message)
            /\ Includes(chunk.message.message, "translateValueEvent:")
    THEN <<>>
    ELSE IF chunk.label = "CNTRLR" /\ HasTag(chunk, "setValue") THEN <<>>
    ELSE <<chunk>>

(***************************************************************************)
(* ClassifyLogEntry.  A field the code leaves undefined is absent from the *)
(* record.                                                                 *)
(***************************************************************************)
\* the value a JavaScript condition treats as true
Truthy(v) ==
    IF "str" \in DOMAIN v THEN v.str # ""
    ELSE IF "num" \in DOMAIN v THEN v.num # 0
    ELSE IF "bool" \in DOMAIN v THEN v.bool
    ELSE TRUE

\* a record without one of its fields
Without(obj, key) == [k \in DOMAIN obj \ {key} |-> obj[k]]

\* a record with a field set or added
With(obj, key, value) == [k \in DOMAIN obj \cup {key} |-> IF k = key THEN value ELSE obj[k]]

\* what extractAttribute(info, key) returns: <<>> for undefined
AttributeOf(info, key) ==
    IF HasKey(info, "attributes") THEN Get(info.attributes, key) ELSE <<>>

\* what extractAttribute(info, key) leaves of info
extractAttribute(info, key) ==
    IF HasKey(info, "attributes") /\ In(key, info.attributes)
    THEN IF Len(info.attributes) = 1 THEN Without(info, "attributes")
         ELSE [info EXCEPT !.attributes = Delete(@, key)]
    ELSE info

RECURSIVE stripSquareBrackets(_)
stripSquareBrackets(info) ==
    LET stripped == IF StartsWith(info.message, "[") /\ EndsWith(info.message, "]")
                    THEN [info EXCEPT !.message = Slice(@, 1, -1)] ELSE info
    IN  IF HasKey(info, "nested")
        THEN [stripped EXCEPT !.nested = stripSquareBrackets(@)] ELSE stripped

NodeTags(chunk) ==
    IF HasKey(chunk, "primaryTags")
    THEN {i \in 1..Len(chunk.primaryTags) : StartsWith(chunk.primaryTags[i], "Node ")}
    ELSE {}

hasNodeIdTag(chunk) == NodeTags(chunk) # {}

\* the number extractNodeIdTag(chunk) returns for a chunk with a node tag
extractNodeIdTag(chunk) ==
    parseInt(SliceFrom(chunk.primaryTags[CHOOSE i \in NodeTags(chunk) :
                                             \A j \in NodeTags(chunk) : i <= j], 5))

\* tags.findLast((t) => t !== mark), <<>> for undefined
FindLastOther(tags, mark) ==
    LET others == {i \in 1..Len(tags) : tags[i] # mark}
    IN  IF others = {} THEN <<>>
        ELSE <<tags[CHOOSE i \in others : \A j \in others : j <= i]>>

\* the ways ^(?<property>[^[:]+)(?:\[(?<key>[^[]+)\])? matches a prefix of
\* message; the match the regular expression tries first has the highest
\* rank (longest property, then the key group with the longest key, then
\* no key group)
HeadParses(message) ==
    LET propertyLengths ==
            {n \in 1..Len(message) :
                \A i \in 1..n : CharAt(message, i) # "[" /\ CharAt(message, i) # ":"}
        closes(n) ==
            {c \in (n + 3)..Len(message) :
                /\ CharAt(message, n + 1) = "["
                /\ CharAt(message, c) = "]"
                /\ \A i \in (n + 2)..(c - 1) : CharAt(message, i) # "["}
    IN  UNION {
            {[property |-> SubSeq(message, 1, n), key |-> <<>>,
              rest |-> SliceFrom(message, n), rank |-> n * 1000]}
            \cup {[property |-> SubSeq(message, 1, n),
                   key |-> <<SubSeq(message, n + 2, c - 1)>>,
                   rest |-> SliceFrom(message, c), rank |-> n * 1000 + c] : c \in closes(n)}
            : n \in propertyLengths}

\* (?:\s*\[Endpoint (?<endpoint>\d+)\])?$ on the whole of tail: <<>> when it
\* does not match, else <<"">> (no endpoint) or <<digits>>
EndpointSuffix(tail) ==
    LET t == TrimStart(tail)
    IN  IF tail = "" THEN <<"">>
        ELSE IF /\ StartsWith(t, "[Endpoint ") /\ EndsWith(t, "]")
                /\ AllDigits(Slice(t, Len("[Endpoint "), -1))
        THEN <<Slice(t, Len("[Endpoint "), -1)>>
        ELSE <<>>

\* (?<value>.+?)(?:\s*\[Endpoint (?<endpoint>\d+)\])?$ on the whole of text
LazyValue(text) ==
    LET cuts == {v \in 1..Len(text) :
                    /\ ~Includes(SubSeq(text, 1, v), NL)
                    /\ EndpointSuffix(SliceFrom(text, v)) # <<>>}
    IN  IF cuts = {} THEN <<>>
        ELSE LET v == CHOOSE x \in cuts : \A y \in cuts : x <= y
             IN  <<[value |-> SubSeq(text, 1, v), endpoint |-> EndpointSuffix(SliceFrom(text, v))[1]]>>

\* the head parse of highest rank among those whose rest satisfies tailMatches
BestHead(message, tailMatches(_)) ==
    LET good == {h \in HeadParses(message) : tailMatches(h.rest)}
    IN  IF good = {} THEN <<>>
        ELSE <<CHOOSE h \in good : \A g \in good : g.rank <= h.rank>>

\* stripUndefined({endpointIndex, property, propertyKey, ...more})
ParsedValue(head, endpoint, more) ==
    [k \in {"property"} \cup DOMAIN more
           \cup (IF head.key # <<>> THEN {"propertyKey"} ELSE {})
           \cup (IF endpoint # "" THEN {"endpointIndex"} ELSE {}) |->
        IF k = "property" THEN head.property
        ELSE IF k = "propertyKey" THEN head.key[1]
        ELSE IF k = "endpointIndex" THEN parseInt(endpoint)
        ELSE more[k]]

\* what follows the property of a value added: ": " and the value
ValueAddedTail(rest) == StartsWith(rest, ": ") /\ LazyValue(SliceFrom(rest, 2)) # <<>>

ValueAdded(head, v) ==
    ParsedValue(head, v.endpoint, [value |-> tryParseValue(v.value)])

ValueAddedOf(head) ==
    IF head = <<>> THEN <<>>
    ELSE <<ValueAdded(head[1], LazyValue(SliceFrom(head[1].rest, 2))[1])>>

\* <<>> for undefined
parseValueAddedMessage(message) == ValueAddedOf(BestHead(message, ValueAddedTail))

\* whether text, cut after its first a characters, is a prev and " => value"
IsPrevAndValue(text, a) ==
    /\ ~Includes(SubSeq(text, 1, a), NL)
    /\ StartsWith(SliceFrom(text, a), " => ")
    /\ LazyValue(SliceFrom(text, a + 4)) # <<>>

ShortestPrev(text, cuts) ==
    IF cuts = {} THEN <<>>
    ELSE LET a == CHOOSE x \in cuts : \A y \in cuts : x <= y
         IN  <<[prev |-> SubSeq(text, 1, a), value |-> LazyValue(SliceFrom(text, a + 4))[1]]>>

\* (?<prev>.+?) => (?<value>.+?)...$: the shortest prev that works
PrevAndValue(text) == ShortestPrev(text, {a \in 1..Len(text) : IsPrevAndValue(text, a)})

ValueUpdatedTail(rest) == StartsWith(rest, ": ") /\ PrevAndValue(SliceFrom(rest, 2)) # <<>>

ValueUpdated(head, pv) ==
    ParsedValue(head, pv.value.endpoint,
                [prevValue |-> tryParseValue(pv.prev), value |-> tryParseValue(pv.value.value)])

ValueUpdatedOf(head) ==
    IF head = <<>> THEN <<>>
    ELSE <<ValueUpdated(head[1], PrevAndValue(SliceFrom(head[1].rest, 2))[1])>>

parseValueUpdatedMessage(message) == ValueUpdatedOf(BestHead(message, ValueUpdatedTail))

\*  \(was (?<prev>[^)]+?)\)(?:\s*\[Endpoint (?<endpoint>\d+)\])?$ on the whole of rest
WasValue(rest) ==
    LET close == IndexOf(rest, ")")
    IN  IF /\ StartsWith(rest, " (was ")
           /\ close > Len(" (was ")
           /\ EndpointSuffix(SliceFrom(rest, close + 1)) # <<>>
        THEN <<[prev |-> Slice(rest, Len(" (was "), close),
                endpoint |-> EndpointSuffix(SliceFrom(rest, close + 1))[1]]>>
        ELSE <<>>

ValueRemovedTail(rest) == WasValue(rest) # <<>>

ValueRemoved(head, w) ==
    ParsedValue(head, w.endpoint, [prevValue |-> tryParseValue(w.prev)])

ValueRemovedOf(head) ==
    IF head = <<>> THEN <<>> ELSE <<ValueRemoved(head[1], WasValue(head[1].rest)[1])>>

parseValueRemovedMessage(message) == ValueRemovedOf(BestHead(message, ValueRemovedTail))

MetadataUpdatedWords == ": metadata updated"

MetadataUpdatedTail(rest) ==
    /\ StartsWith(rest, MetadataUpdatedWords)
    /\ EndpointSuffix(SliceFrom(rest, Len(MetadataUpdatedWords))) # <<>>

MetadataUpdatedOf(head) ==
    IF head = <<>> THEN <<>>
    ELSE <<ParsedValue(head[1],
                       EndpointSuffix(SliceFrom(head[1].rest, Len(MetadataUpdatedWords)))[1],
                       [k \in {} |-> 0])>>

parseMetadataUpdatedMessage(message) ==
    MetadataUpdatedOf(BestHead(message, MetadataUpdatedTail))

\* a record built from fixed fields and optional ones; each optional field
\* is <<>> or <<value>>
Object(fixed, optional) ==
    [k \in DOMAIN fixed \cup {o \in DOMAIN optional : optional[o] # <<>>} |->
        IF k \in DOMAIN fixed THEN fixed[k] ELSE optional[k][1]]

IsDriverCommand(chunk, direction, tag) ==
    /\ chunk.label = "DRIVER"
    /\ chunk.direction = direction
    /\ HasTag(chunk, tag)
    /\ ~IsString(chunk.message)

\* index.ts:489-530
IncomingCommand(chunk) ==
    LET rssi    == AttributeOf(chunk.message, "RSSI")
        nested  == chunk.message.nested
        invalid == EndsWith(nested.message, " [INVALID]")
        payload == stripSquareBrackets(
                       IF invalid
                       THEN [nested EXCEPT !.message = Slice(@, 0, 0 - Len(" [INVALID]"))]
                       ELSE nested)
    IN  Object([kind |-> "INCOMING_COMMAND", timestamp |-> chunk.timestamp,
                nodeId |-> extractNodeIdTag(chunk), payload |-> payload],
               [rssi |-> IF rssi # <<>> /\ Truthy(rssi[1]) THEN rssi ELSE <<>>,
                invalid |-> IF invalid THEN <<TRUE>> ELSE <<>>])

\* index.ts:541-569
SendDataRequest(chunk) ==
    LET transmitOptions == AttributeOf(chunk.message, "transmit options")
        afterOptions    == extractAttribute(chunk.message, "transmit options")
        callbackId      == AttributeOf(afterOptions, "callback id")
        message == stripSquareBrackets(
                       extractAttribute(extractAttribute(afterOptions, "callback id"),
                                        "source node id"))
    IN  Object([kind |-> "SEND_DATA_REQUEST", timestamp |-> chunk.timestamp,
                nodeId |-> extractNodeIdTag(chunk), payload |-> message.nested],
               [transmitOptions |-> transmitOptions, callbackId |-> callbackId])

\* index.ts:579-590
SendDataResponse(chunk) ==
    LET wasSent == AttributeOf(chunk.message, "was sent")
    IN  [kind |-> "SEND_DATA_RESPONSE", timestamp |-> chunk.timestamp,
         success |-> wasSent # <<>> /\ Truthy(wasSent[1])]

\* index.ts:600-619
SendDataCallback(chunk) ==
    LET callbackId == AttributeOf(chunk.message, "callback id")
        message    == stripSquareBrackets(extractAttribute(chunk.message, "callback id"))
    IN  Object([kind |-> "SEND_DATA_CALLBACK", timestamp |-> chunk.timestamp,
                attributes |-> IF HasKey(message, "attributes") THEN message.attributes
                               ELSE <<>>],
               [callbackId |-> callbackId])

\* index.ts:628-653: <<>> when the chunk is none of the three
GenericKind(chunk) ==
    IF chunk.direction = "outbound" /\ HasTag(chunk, "REQ") THEN <<"REQUEST">>
    ELSE IF chunk.direction = "inbound" /\ HasTag(chunk, "RES") THEN <<"RESPONSE">>
    ELSE IF chunk.direction = "inbound" /\ HasTag(chunk, "REQ") THEN <<"CALLBACK">>
    ELSE <<>>

\* index.ts:655-674
GenericCommand(chunk, kind) ==
    LET tags == SelectSeq(chunk.primaryTags, LAMBDA tag : tag # "REQ" /\ tag # "RES")
        message == IF IsString(chunk.message) THEN chunk.message
                   ELSE stripSquareBrackets(chunk.message)
        copy == With(With(Without(chunk, "label"), "kind", kind), "message", message)
    IN  IF Len(tags) = 0 THEN Without(copy, "primaryTags")
        ELSE With(copy, "primaryTags", tags)

\* index.ts:697-748: the event of a branch, <<>> when the command class or
\* the parsed message is missing
ValueEventOf(chunk, kind, commandClass, parsed) ==
    IF commandClass = <<>> \/ commandClass[1] = "" \/ parsed = <<>> THEN <<>>
    ELSE <<[k \in {"kind", "timestamp", "nodeId", "commandClass"} \cup DOMAIN parsed[1] |->
              IF k = "kind" THEN kind
              ELSE IF k = "timestamp" THEN chunk.timestamp
              ELSE IF k = "nodeId" THEN extractNodeIdTag(chunk)
              ELSE IF k = "commandClass" THEN commandClass[1]
              ELSE parsed[1][k]]>>

\* index.ts:686-750: the value event of a CNTRLR chunk with a node tag and a
\* string message, <<>> when none of the branches enqueues
ValueEvent(chunk) ==
    LET tags == chunk.primaryTags
        has(mark) == \E i \in 1..Len(tags) : tags[i] = mark
    IN  IF has("+")
        THEN ValueEventOf(chunk, "VALUE_ADDED", FindLastOther(tags, "+"),
                          parseValueAddedMessage(chunk.message.str))
        ELSE IF has("~")
        THEN ValueEventOf(chunk, "VALUE_UPDATED", FindLastOther(tags, "~"),
                          parseValueUpdatedMessage(chunk.message.str))
        ELSE IF has("-")
        THEN ValueEventOf(chunk, "VALUE_REMOVED", FindLastOther(tags, "-"),
                          parseValueRemovedMessage(chunk.message.str))
        ELSE IF Len(tags) = 2
        THEN ValueEventOf(chunk, "METADATA_UPDATED", <<tags[2]>>,
                          parseMetadataUpdatedMessage(chunk.message.str))
        ELSE <<>>

\* a catch-all that drops the label, as the generic commands do
OtherEntry_WithoutLabel(chunk) == With(Without(chunk, "label"), "kind", "OTHER")

\* index.ts:754-757
OtherEntry(chunk) == With(chunk, "kind", "OTHER")

\* index.ts:676-757: the value event when there is one, else the catch-all
ValueOrOther(chunk, valueEvent) ==
    IF valueEvent # <<>> THEN valueEvent ELSE <<OtherEntry(chunk)>>

\* index.ts:622-675: the generic command when the tags name one
GenericOrValue(chunk, kind) ==
    IF kind # <<>> THEN <<GenericCommand(chunk, kind[1])>>
    ELSE ValueOrOther(chunk, IF /\ chunk.label = "CNTRLR"
                                /\ chunk.direction = "none"
                                /\ hasNodeIdTag(chunk)
                                /\ IsString(chunk.message)
                             THEN ValueEvent(chunk) ELSE <<>>)

\* a classifier that tries the generic rule before the patterns of SendData
ClassifyLogEntry_GenericFirst(chunk) ==
    IF chunk.label = "DRIVER" /\ chunk.direction # "none" /\ HasKey(chunk, "primaryTags")
          /\ GenericKind(chunk) # <<>>
    THEN <<GenericCommand(chunk, GenericKind(chunk)[1])>>
    ELSE <<OtherEntry(chunk)>>

\* transform(chunk, controller): the events it enqueues, in order
ClassifyLogEntry(chunk) ==
    IF /\ IsDriverCommand(chunk, "inbound", "REQ")
       /\ hasNodeIdTag(chunk)
       /\ EndsWith(chunk.message.message, "ApplicationCommand]")
       /\ HasKey(chunk.message, "nested")
    THEN <<IncomingCommand(chunk)>>
    ELSE IF /\ IsDriverCommand(chunk, "outbound", "REQ")
            /\ hasNodeIdTag(chunk)
            /\ StartsWith(chunk.message.message, "[SendData")
            /\ HasKey(chunk.message, "nested")
    THEN <<SendDataRequest(chunk)>>
    ELSE IF /\ IsDriverCommand(chunk, "inbound", "RES")
            /\ StartsWith(chunk.message.message, "[SendData")
    THEN <<SendDataResponse(chunk)>>
    ELSE IF /\ IsDriverCommand(chunk, "inbound", "REQ")
            /\ StartsWith(chunk.message.message, "[SendData")
    THEN <<SendDataCallback(chunk)>>
    ELSE GenericOrValue(chunk, IF /\ chunk.label = "DRIVER"
                                  /\ chunk.direction # "none"
                                  /\ HasKey(chunk, "primaryTags")
                               THEN GenericKind(chunk) ELSE <<>>)

(***************************************************************************)
(* SemanticLogInfo events.  A field of type string | LogInfoPayload holds  *)
(* [str |-> s] for a string and the payload record otherwise; an attribute *)
(* value holds [str |-> s], [num |-> n] or [bool |-> b].                   *)
(***************************************************************************)
\* an outbound REQUEST as ClassifyLogEntry emits it for "[REQ] [GetBackgroundRSSI]"
GetBackgroundRSSIRequest(ts) ==
    [kind |-> "REQUEST", timestamp |-> ts, direction |-> "outbound",
     message |-> [str |-> "[GetBackgroundRSSI]"]]

\* an inbound RESPONSE with a nested message, with or without attributes
GetBackgroundRSSIResponse(ts, attrs) ==
    [kind |-> "RESPONSE", timestamp |-> ts, direction |-> "inbound",
     message |-> IF attrs = <<>> THEN [message |-> "GetBackgroundRSSI"]
                 ELSE [message |-> "GetBackgroundRSSI", attributes |-> attrs]]

\* an event no RSSI rule is about
OtherEvent(ts) ==
    [kind |-> "OTHER", timestamp |-> ts, label |-> "CNTRLR", direction |-> "none",
     message |-> [str |-> "Interview completed"]]

(***************************************************************************)
(* DetectBackgroundRSSICalls                                               *)
(***************************************************************************)
\* index.ts:790-794
IsGetBackgroundRSSIRequest(chunk) ==
    /\ chunk.kind = "REQUEST"
    /\ chunk.direction = "outbound"
    /\ IsString(chunk.message)
    /\ chunk.message.str = "[GetBackgroundRSSI]"

\* index.ts:821-827
IsGetBackgroundRSSIResponse(chunk) ==
    /\ chunk.kind = "RESPONSE"
    /\ chunk.direction = "inbound"
    /\ ~IsString(chunk.message)
    /\ chunk.message.message = "GetBackgroundRSSI"
    /\ HasKey(chunk.message, "attributes")

\* index.ts:833-844: channel 0 and 1 are copied as they are (undefined when
\* the response lacks them: the key is then absent), channel 2 and 3 only
\* when present
MergedEntry(request, attributes) ==
    LET keys == {k \in {"channel 0", "channel 1"} : In(k, attributes)}
                \cup {k \in {"channel 2", "channel 3"} :
                         In(k, attributes) /\ Truthy(Get(attributes, k)[1])}
    IN  [k \in {"kind", "timestamp"} \cup keys |->
            IF k = "kind" THEN "BACKGROUND_RSSI"
            ELSE IF k = "timestamp" THEN request.timestamp
            ELSE Get(attributes, k)[1].str]

\* a flush that emits the buffer before the request
DetectFlushOutput_BufferFirst == bufferedEntries \o pendingRequest

\* a flush that emits the buffer alone
DetectFlushOutput_WithoutRequest == bufferedEntries

\* what the merger's flush(controller) enqueues (index.ts:856-863)
DetectFlushOutput == pendingRequest \o bufferedEntries

\* a merger that discards the buffer when the response arrives
ResponseFlushOutput_Discard == <<>>

\* what flushBufferedEntries(controller) enqueues when the response arrives
\* (index.ts:778-785, called at index.ts:829)
ResponseFlushOutput == bufferedEntries

\* transformer.transform(chunk, controller) of the merger
DetectChunk(chunk) ==
    /\ ~upstreamClosed
    /\ written' = Append(written, chunk)
    /\ IF IsGetBackgroundRSSIRequest(chunk)
       THEN /\ rssiQueue' = rssiQueue \o DetectFlushOutput
            /\ pendingRequest' = <<chunk>>
            /\ bufferedEntries' = <<>>
       ELSE IF pendingRequest = <<>>
       THEN /\ rssiQueue' = Append(rssiQueue, chunk)
            /\ UNCHANGED <<pendingRequest, bufferedEntries>>
       ELSE IF parseTimestamp(chunk.timestamp)
                 - parseTimestamp(pendingRequest[1].timestamp) > 200
       THEN /\ rssiQueue' = Append(rssiQueue \o DetectFlushOutput, chunk)
            /\ pendingRequest' = <<>>
            /\ bufferedEntries' = <<>>
       ELSE IF IsGetBackgroundRSSIResponse(chunk)
       THEN /\ rssiQueue' = Append(rssiQueue \o ResponseFlushOutput,
                                   MergedEntry(pendingRequest[1],
                                               chunk.message.attributes))
            /\ pendingRequest' = <<>>
            /\ bufferedEntries' = <<>>
       ELSE /\ bufferedEntries' = Append(bufferedEntries, chunk)
            /\ UNCHANGED <<rssiQueue, pendingRequest>>
    /\ UNCHANGED upstreamClosed

\* transformer.flush(controller) of the merger, at the end of its input
DetectEnd ==
    /\ ~upstreamClosed
    /\ rssiQueue' = rssiQueue \o DetectFlushOutput
    /\ pendingRequest' = <<>>
    /\ bufferedEntries' = <<>>
    /\ upstreamClosed' = TRUE
    /\ UNCHANGED written

(***************************************************************************)
(* AggregateBackgroundRSSI                                                 *)
(***************************************************************************)
\* parseInt(rssiString, 10): "-107 dBm" -> -107
parseRSSIValue(rssiString) == parseInt(rssiString)

\* [...values].sort((a, b) => a - b)
RECURSIVE SortNumbers(_)
SortNumbers(values) ==
    IF Len(values) = 0 THEN <<>>
    ELSE LET i == CHOOSE j \in 1..Len(values) :
                      \A k \in 1..Len(values) : values[j] <= values[k]
         IN  <<values[i]>> \o SortNumbers(SubSeq(values, 1, i - 1)
                                          \o SubSeq(values, i + 1, Len(values)))

RECURSIVE Sum(_)
Sum(values) == IF Len(values) = 0 THEN 0 ELSE Head(values) + Sum(Tail(values))

\* a median taken from the unsorted readings
calculateMedian_Unsorted(values) == values[Len(values) \div 2 + 1] * 100

\* numbers that need not be whole (median, stddev) are held in hundredths
\* calculateMedian(values) * 100
calculateMedian(values) ==
    LET sorted == SortNumbers(values)
        mid    == Len(sorted) \div 2          \* 0-based index
    IN  IF Len(sorted) % 2 = 0
        THEN (sorted[mid] + sorted[mid + 1]) * 50
        ELSE sorted[mid + 1] * 100

\* the largest r in lo..hi with r * r <= x
RECURSIVE FloorSqrt(_, _, _)
FloorSqrt(lo, hi, x) ==
    IF lo = hi THEN lo
    ELSE LET mid == (lo + hi + 1) \div 2
         IN  IF mid * mid <= x THEN FloorSqrt(mid, hi, x) ELSE FloorSqrt(lo, mid - 1, x)

\* Math.round(calculateStdDev(values) * 100): with n values of sum S and sum
\* of squares Q the deviation is sqrt(n*Q - S*S) / n, so the result is
\* floor((sqrt(40000 * (n*Q - S*S)) + n) / (2*n))
calculateStdDev(values) ==
    LET n == Len(values)
        S == Sum(values)
        Q == Sum([i \in 1..n |-> values[i] * values[i]])
        V == n * Q - S * S
    IN  (FloorSqrt(0, 46340, 40000 * V) + n) \div (2 * n)

\* the loop of findMinMaxWithTimestamp: the index whose value replaces the
\* running extreme last, i.e. the first index holding the extreme value
FirstIndexOf(values, v) ==
    CHOOSE i \in 1..Len(values) : values[i] = v /\ \A j \in 1..(i - 1) : values[j] # v

findMinMaxWithTimestamp(values, timestamps) ==
    LET sorted == SortNumbers(values)
        minValue == sorted[1]
        maxValue == sorted[Len(sorted)]
    IN  [min |-> [value |-> minValue, timestamp |-> timestamps[FirstIndexOf(values, minValue)]],
         max |-> [value |-> maxValue, timestamp |-> timestamps[FirstIndexOf(values, maxValue)]]]

ChannelKeys(entry) == DOMAIN entry \ {"kind", "timestamp"}

\* the entries (in order) that carry channelKey
RECURSIVE WithChannel(_, _)
WithChannel(es, channelKey) ==
    IF Len(es) = 0 THEN <<>>
    ELSE (IF channelKey \in ChannelKeys(Head(es)) THEN <<Head(es)>> ELSE <<>>)
             \o WithChannel(Tail(es), channelKey)

ChannelValues(es, channelKey) ==
    LET with == WithChannel(es, channelKey)
    IN  [i \in 1..Len(with) |-> parseRSSIValue(with[i][channelKey])]

ChannelTimestamps(es, channelKey) ==
    LET with == WithChannel(es, channelKey)
    IN  [i \in 1..Len(with) |-> with[i].timestamp]

ChannelStats(es, channelKey) ==
    LET values == ChannelValues(es, channelKey)
        minmax == findMinMaxWithTimestamp(values, ChannelTimestamps(es, channelKey))
    IN  [min |-> minmax.min, max |-> minmax.max,
         median |-> calculateMedian(values), stddev |-> calculateStdDev(values)]

aggregateRSSIEntries(es) ==
    LET channels == UNION {ChannelKeys(es[i]) : i \in 1..Len(es)}
    IN  [k \in {"kind", "timestamp", "samples", "time_range"} \cup channels |->
            IF k = "kind" THEN "BACKGROUND_RSSI_SUMMARY"
            ELSE IF k = "timestamp" THEN es[1].timestamp
            ELSE IF k = "samples" THEN Len(es)
            ELSE IF k = "time_range"
                 THEN [start |-> es[1].timestamp, end |-> es[Len(es)].timestamp]
            ELSE ChannelStats(es, k)]

\* an aggregator that summarises runs of two
AggregateFlushOutput_FromTwo(buffered) ==
    IF Len(buffered) = 0 THEN <<>>
    ELSE IF Len(buffered) < 2 THEN buffered
    ELSE <<aggregateRSSIEntries(buffered)>>

\* what flushBufferedEntries(controller) of the aggregator enqueues
AggregateFlushOutput(buffered) ==
    IF Len(buffered) = 0 THEN <<>>
    ELSE IF Len(buffered) <= 2 THEN buffered
    ELSE <<aggregateRSSIEntries(buffered)>>

\* an aggregator that passes other events by the buffered readings
AggregateChunk_PassesBy(chunk) ==
    /\ ~aggregateClosed
    /\ aggregated' = Append(aggregated, chunk)
    /\ IF chunk.kind = "BACKGROUND_RSSI"
       THEN /\ bufferedRSSIEntries' = Append(bufferedRSSIEntries, chunk)
            /\ UNCHANGED entries
       ELSE /\ entries' = Append(entries, chunk)
            /\ UNCHANGED bufferedRSSIEntries
    /\ UNCHANGED aggregateClosed

\* transformer.transform(chunk, controller) of the aggregator; what it
\* enqueues is written to the pipeline's result array
AggregateChunk(chunk) ==
    /\ ~aggregateClosed
    /\ aggregated' = Append(aggregated, chunk)
    /\ IF chunk.kind = "BACKGROUND_RSSI"
       THEN /\ bufferedRSSIEntries' = Append(bufferedRSSIEntries, chunk)
            /\ UNCHANGED entries
       ELSE /\ entries' = Append(entries \o AggregateFlushOutput(bufferedRSSIEntries), chunk)
            /\ bufferedRSSIEntries' = <<>>
    /\ UNCHANGED aggregateClosed

\* transformer.flush(controller) of the aggregator
AggregateEnd ==
    /\ ~aggregateClosed
    /\ entries' = entries \o AggregateFlushOutput(bufferedRSSIEntries)
    /\ bufferedRSSIEntries' = <<>>
    /\ aggregateClosed' = TRUE
    /\ UNCHANGED aggregated

(***************************************************************************)
(* The merger piped through the aggregator into the result array           *)
(* (index.ts:1068-1070)                                                    *)
(***************************************************************************)
\* the merger is given its next chunk once the aggregator has taken what the
\* merger enqueued before
DetectTransform(chunk) ==
    /\ rssiQueue = <<>>
    /\ Len(written) < MaxEvents
    /\ DetectChunk(chunk)
    /\ UNCHANGED <<aggregated, bufferedRSSIEntries, aggregateClosed, entries,
                   splitVars, stageVars, engineVars, serverVars>>

\* a flush that leaves the request pending
DetectFlush_KeepsRequest ==
    /\ rssiQueue = <<>>
    /\ ~upstreamClosed
    /\ rssiQueue' = DetectFlushOutput
    /\ bufferedEntries' = <<>>
    /\ upstreamClosed' = TRUE
    /\ UNCHANGED <<written, pendingRequest>>
    /\ UNCHANGED <<aggregated, bufferedRSSIEntries, aggregateClosed, entries,
                   splitVars, stageVars, engineVars, serverVars>>

\* the merger's input ends
DetectFlush ==
    /\ rssiQueue = <<>>
    /\ DetectEnd
    /\ UNCHANGED <<aggregated, bufferedRSSIEntries, aggregateClosed, entries,
                   splitVars, stageVars, engineVars, serverVars>>

AggregateTransform ==
    /\ rssiQueue # <<>>
    /\ AggregateChunk(Head(rssiQueue))
    /\ rssiQueue' = Tail(rssiQueue)
    /\ UNCHANGED <<detectVars, splitVars, stageVars, engineVars, serverVars>>

AggregateFlush ==
    /\ upstreamClosed
    /\ rssiQueue = <<>>
    /\ AggregateEnd
    /\ UNCHANGED <<rssiQueue, detectVars, splitVars, stageVars, engineVars, serverVars>>

Gaps == {100, 201}

NextTimestamps(history, gaps) ==
    IF history = <<>> THEN {TimestampAt(0)}
    ELSE {TimestampAt(parseTimestamp(history[Len(history)].timestamp) + g) : g \in gaps}

SampleAttributes == <<[key |-> "channel 0", value |-> [str |-> "-90 dBm"]],
                      [key |-> "channel 1", value |-> [str |-> "-100 dBm"]]>>

ClassifiedEvents(ts) ==
    {GetBackgroundRSSIRequest(ts), GetBackgroundRSSIResponse(ts, SampleAttributes),
     GetBackgroundRSSIResponse(ts, <<>>), OtherEvent(ts)}

RssiInit == SplitIdle /\ StagesIdle /\ DetectIdle /\ AggregateIdle /\ EngineIdle

RssiNext ==
    \/ \E ts \in NextTimestamps(written, Gaps) : \E chunk \in ClassifiedEvents(ts) :
           DetectTransform(chunk)
    \/ DetectFlush
    \/ AggregateTransform
    \/ AggregateFlush

RssiSpec == RssiInit /\ [][RssiNext]_vars

(***************************************************************************)
(* The aggregator on its own                                               *)
(***************************************************************************)
BackgroundRSSI(ts, c0, c2) ==
    [k \in {"kind", "timestamp", "channel 0", "channel 1"}
           \cup (IF c2 = "" THEN {} ELSE {"channel 2"}) |->
        IF k = "kind" THEN "BACKGROUND_RSSI"
        ELSE IF k = "timestamp" THEN ts
        ELSE IF k = "channel 0" THEN c0
        ELSE IF k = "channel 1" THEN "-100 dBm"
        ELSE c2]

MergedEvents(ts) ==
    {BackgroundRSSI(ts, c0, "") : c0 \in {"-95 dBm", "-90 dBm", "-85 dBm"}}
        \cup {BackgroundRSSI(ts, "-90 dBm", "-80 dBm"), OtherEvent(ts)}

AggregateWrite(chunk) ==
    /\ Len(aggregated) < MaxAggEvents
    /\ AggregateChunk(chunk)
    /\ UNCHANGED <<rssiQueue, detectVars, splitVars, stageVars, engineVars, serverVars>>

AggregateClose ==
    /\ AggregateEnd
    /\ UNCHANGED <<rssiQueue, detectVars, splitVars, stageVars, engineVars, serverVars>>

AggInit == SplitIdle /\ StagesIdle /\ DetectIdle /\ AggregateIdle /\ EngineIdle

AggNext ==
    \/ \E ts \in NextTimestamps(aggregated, {100}) : \E chunk \in MergedEvents(ts) :
           AggregateWrite(chunk)
    \/ AggregateClose

AggSpec == AggInit /\ [][AggNext]_vars

(***************************************************************************)
(* Properties of the RSSI stages                                           *)
(***************************************************************************)
IsBackgroundRSSI(e) == e.kind = "BACKGROUND_RSSI"

IsSummary(e) == e.kind = "BACKGROUND_RSSI_SUMMARY"

\* the length of the longest prefix of es made of BACKGROUND_RSSI events
RECURSIVE RunLength(_)
RunLength(es) ==
    IF Len(es) = 0 \/ ~IsBackgroundRSSI(Head(es)) THEN 0 ELSE 1 + RunLength(Tail(es))

\* out is what the runs of in are to become: events other than
\* BACKGROUND_RSSI and runs of at most two stay, a longer run of k becomes one
\* summary with samples k, stamped with and spanning from the run's first
\* timestamp to its last
RECURSIVE RunsReplaced(_, _)
RunsReplaced(out, in) ==
    IF Len(in) = 0 THEN Len(out) = 0
    ELSE LET k == RunLength(in)
         IN  IF k = 0
             THEN Len(out) >= 1 /\ out[1] = in[1] /\ RunsReplaced(Tail(out), Tail(in))
             ELSE IF k <= 2
             THEN /\ Len(out) >= k
                  /\ SubSeq(out, 1, k) = SubSeq(in, 1, k)
                  /\ RunsReplaced(SubSeq(out, k + 1, Len(out)), SubSeq(in, k + 1, Len(in)))
             ELSE /\ Len(out) >= 1
                  /\ IsSummary(out[1])
                  /\ out[1].samples = k
                  /\ out[1].timestamp = in[1].timestamp
                  /\ out[1].time_range = [start |-> in[1].timestamp, end |-> in[k].timestamp]
                  /\ RunsReplaced(Tail(out), SubSeq(in, k + 1, Len(in)))

\* C8: in the aggregator every maximal run of k consecutive BACKGROUND_RSSI
\* events is emitted unchanged and in order when k <= 2 and is replaced by
\* exactly one BACKGROUND_RSSI_SUMMARY when k > 2, with samples = k, the
\* timestamp of the run's first event and a time_range from the first to the
\* last event of the run; a run still growing is held back until it ends
C8_RunsSummarised ==
    LET done == Len(aggregated) - Len(bufferedRSSIEntries)
    IN  /\ bufferedRSSIEntries = SubSeq(aggregated, done + 1, Len(aggregated))
        /\ \A i \in 1..Len(bufferedRSSIEntries) : IsBackgroundRSSI(bufferedRSSIEntries[i])
        /\ (~aggregateClosed /\ done > 0) => ~IsBackgroundRSSI(aggregated[done])
        /\ aggregateClosed => bufferedRSSIEntries = <<>>
        /\ RunsReplaced(entries, SubSeq(aggregated, 1, done))

\* a run of three, then another event: one summary and that event
C8_Witness ==
    /\ aggregateClosed
    /\ Len(aggregated) = 4
    /\ RunLength(aggregated) = 3
    /\ Len(entries) = 2
    /\ IsSummary(entries[1])
    /\ entries[1].samples = 3

\* the maximal runs of more than two BACKGROUND_RSSI events of es, in order
RECURSIVE LongRuns(_)
LongRuns(es) ==
    IF Len(es) = 0 THEN <<>>
    ELSE LET k == RunLength(es)
         IN  IF k = 0 THEN LongRuns(Tail(es))
             ELSE (IF k > 2 THEN <<SubSeq(es, 1, k)>> ELSE <<>>)
                      \o LongRuns(SubSeq(es, k + 1, Len(es)))

\* the p-th smallest of the readings
Kth(readings, p) ==
    CHOOSE v \in {readings[j] : j \in 1..Len(readings)} :
        /\ Cardinality({j \in 1..Len(readings) : readings[j] < v}) < p
        /\ p <= Cardinality({j \in 1..Len(readings) : readings[j] <= v})

\* stats describes the readings (with the timestamps they were taken at)
DescribesReadings(stats, readings, timestamps) ==
    LET n == Len(readings)
    IN  /\ stats.min.value = Kth(readings, 1)
        /\ stats.max.value = Kth(readings, n)
        /\ \E j \in 1..n : readings[j] = stats.min.value /\ timestamps[j] = stats.min.timestamp
        /\ \E j \in 1..n : readings[j] = stats.max.value /\ timestamps[j] = stats.max.timestamp
        /\ IF n % 2 = 1
           THEN stats.median = 100 * Kth(readings, (n + 1) \div 2)
           ELSE stats.median = 50 * (Kth(readings, n \div 2) + Kth(readings, n \div 2 + 1))

\* C9: for a run of more than two BACKGROUND_RSSI events the summary's
\* min.value and max.value of each channel are the least and the greatest
\* reading of that channel in the run, each with the timestamp of an event
\* that carried that reading, and median is the middle value of the sorted
\* readings (for an even number of readings, halfway between the two middle
\* values); channel 0 readings -90, -95, -85 give median -90, min -95, max -85
C9_SummaryStatistics ==
    aggregateClosed =>
        LET runs == LongRuns(aggregated)
            summaries == SelectSeq(entries, IsSummary)
        IN  /\ Len(summaries) = Len(runs)
            /\ \A i \in 1..Len(runs) :
                  /\ ChannelKeys(summaries[i]) \ {"samples", "time_range"}
                         = UNION {ChannelKeys(runs[i][j]) : j \in 1..Len(runs[i])}
                  /\ \A channelKey \in ChannelKeys(summaries[i]) \ {"samples", "time_range"} :
                        DescribesReadings(summaries[i][channelKey],
                                          ChannelValues(runs[i], channelKey),
                                          ChannelTimestamps(runs[i], channelKey))
                  /\ ChannelValues(runs[i], "channel 0") = <<-90, -95, -85>> =>
                        /\ summaries[i]["channel 0"].median = -9000
                        /\ summaries[i]["channel 0"].min.value = -95
                        /\ summaries[i]["channel 0"].max.value = -85

\* the readings -90, -95, -85 of channel 0 have been summarised
C9_Witness ==
    /\ aggregateClosed
    /\ Len(aggregated) = 3
    /\ ChannelValues(aggregated, "channel 0") = <<-90, -95, -85>>
    /\ Len(entries) = 1
    /\ IsSummary(entries[1])

\* the step in which the merger, holding a pending request, receives the
\* matching response within 200 ms of the request
ReceivesMatchingResponse ==
    /\ Len(written') = Len(written) + 1
    /\ pendingRequest # <<>>
    /\ LET chunk == written'[Len(written')]
       IN  /\ chunk.kind = "RESPONSE"
           /\ chunk.direction = "inbound"
           /\ "attributes" \in DOMAIN chunk.message
           /\ parseTimestamp(chunk.timestamp) - parseTimestamp(pendingRequest[1].timestamp) <= 200

\* the events the step emits that are BACKGROUND_RSSI events
EmittedRSSI == {i \in 1..Len(rssiQueue') : IsBackgroundRSSI(rssiQueue'[i])}

\* C5 as stated: when the merger holds a pending GetBackgroundRSSI request
\* and receives the matching response within 200 ms, the events buffered
\* since the request are discarded and exactly one BACKGROUND_RSSI event,
\* stamped with the request's timestamp, is emitted; neither the request
\* nor the response is emitted
C5_BufferDiscarded ==
    [][ReceivesMatchingResponse =>
          /\ Len(rssiQueue') = 1
          /\ IsBackgroundRSSI(rssiQueue'[1])
          /\ rssiQueue'[1].timestamp = pendingRequest[1].timestamp
          /\ pendingRequest' = <<>> /\ bufferedEntries' = <<>>]_vars

\* C5: when the merger holds a pending GetBackgroundRSSI request and
\* receives the matching response within 200 ms, the events buffered since
\* the request are emitted in their order, followed by exactly one
\* BACKGROUND_RSSI event stamped with the request's timestamp; neither the
\* request nor the response is emitted, and nothing stays pending or buffered
C5_BufferEmittedBeforeRSSI ==
    [][ReceivesMatchingResponse =>
          /\ Len(rssiQueue') = Len(bufferedEntries) + 1
          /\ SubSeq(rssiQueue', 1, Len(bufferedEntries)) = bufferedEntries
          /\ EmittedRSSI = {Len(rssiQueue')}
          /\ rssiQueue'[Len(rssiQueue')].timestamp = pendingRequest[1].timestamp
          /\ \A i \in 1..Len(rssiQueue') :
                /\ rssiQueue'[i] # pendingRequest[1]
                /\ rssiQueue'[i] # written'[Len(written')]
          /\ pendingRequest' = <<>> /\ bufferedEntries' = <<>>]_vars

\* a response has been merged while an event was buffered
C5_Witness ==
    /\ Len(written) = 3
    /\ IsGetBackgroundRSSIRequest(written[1])
    /\ written[2].kind = "OTHER"
    /\ IsGetBackgroundRSSIResponse(written[3])
    /\ parseTimestamp(written[3].timestamp) - parseTimestamp(written[1].timestamp) = 200
    /\ rssiQueue = <<written[2], MergedEntry(written[1], written[3].message.attributes)>>

\* C2: the events the pipeline collects from records in non-decreasing
\* timestamp order are in non-decreasing timestamp order, BACKGROUND_RSSI
\* and BACKGROUND_RSSI_SUMMARY events included
C2_TimestampsNonDecreasing ==
    (\A i \in 1..(Len(written) - 1) :
        parseTimestamp(written[i].timestamp) <= parseTimestamp(written[i + 1].timestamp))
    => \A i \in 1..(Len(entries) - 1) :
        parseTimestamp(entries[i].timestamp) <= parseTimestamp(entries[i + 1].timestamp)

(***************************************************************************)
(* More string and array methods                                           *)
(***************************************************************************)
\* array[i] for the code's indices, which count from 0
At(array, i) == array[i + 1]

\* 0, 1, ..., length - 1
Indices(length) == [n \in 1..length |-> n - 1]

\* Array.prototype.join(sep)
RECURSIVE Join(_, _)
Join(parts, sep) ==
    IF Len(parts) = 0 THEN ""
    ELSE IF Len(parts) = 1 THEN parts[1]
    ELSE parts[1] \o sep \o Join(Tail(parts), sep)

\* s.split(sep) for a separator of one character
RECURSIVE Split(_, _)
Split(s, sep) ==
    LET i == IndexOf(s, sep)
    IN  IF i = -1 THEN <<s>>
        ELSE <<Slice(s, 0, i)>> \o Split(SliceFrom(s, i + 1), sep)

RECURSIVE Flatten(_)
Flatten(seqs) == IF Len(seqs) = 0 THEN <<>> ELSE Head(seqs) \o Flatten(Tail(seqs))

UpperCase == "ABCDEFGHIJKLMNOPQRSTUVWXYZ"

LowerCase == "abcdefghijklmnopqrstuvwxyz"

\* the lower-case letter of each upper-case letter
LowerCaseOf ==
    [c \in {CharAt(UpperCase, i) : i \in 1..Len(UpperCase)} |->
        CharAt(LowerCase, IndexOf(UpperCase, c) + 1)]

\* String.prototype.toLowerCase(), one half of the string after the other
RECURSIVE toLowerCase(_)
toLowerCase(s) ==
    IF Len(s) = 0 THEN ""
    ELSE IF Len(s) = 1
    THEN IF s \in DOMAIN LowerCaseOf THEN LowerCaseOf[s] ELSE s
    ELSE toLowerCase(SubSeq(s, 1, Len(s) \div 2))
             \o toLowerCase(SubSeq(s, Len(s) \div 2 + 1, Len(s)))

\* the characters of the strings that are compared, in the order of their
\* code units
CodeUnits ==
    " !\"#$%&'()*+,-./0123456789:;<=>?@ABCDEFGHIJKLMNOPQRSTUVWXYZ[\\]^_abcdefghijklmnopqrstuvwxyz{|}~"

\* a < b for strings
RECURSIVE StringLess(_, _)
StringLess(a, b) ==
    IF Len(b) = 0 THEN FALSE
    ELSE IF Len(a) = 0 THEN TRUE
    ELSE IF CharAt(a, 1) = CharAt(b, 1) THEN StringLess(Tail(a), Tail(b))
    ELSE IndexOf(CodeUnits, CharAt(a, 1)) < IndexOf(CodeUnits, CharAt(b, 1))

\* Array.prototype.sort() of strings
RECURSIVE SortStrings(_)
SortStrings(strings) ==
    IF Len(strings) = 0 THEN <<>>
    ELSE LET i == CHOOSE j \in 1..Len(strings) :
                      \A k \in 1..Len(strings) : ~StringLess(strings[k], strings[j])
         IN  <<strings[i]>> \o SortStrings(SubSeq(strings, 1, i - 1)
                                           \o SubSeq(strings, i + 1, Len(strings)))

\* the elements of S sorted as sort() without a compare function sorts them:
\* as strings
RECURSIVE Ascending_AsStrings(_)
Ascending_AsStrings(S) ==
    IF S = {} THEN <<>>
    ELSE LET least == CHOOSE x \in S :
                          \A y \in S \ {x} : StringLess(NumberText(x), NumberText(y))
         IN  <<least>> \o Ascending_AsStrings(S \ {least})

\* the elements of a set of numbers in ascending order
RECURSIVE Ascending(_)
Ascending(S) ==
    IF S = {} THEN <<>>
    ELSE LET least == CHOOSE x \in S : \A y \in S : x <= y
         IN  <<least>> \o Ascending(S \ {least})

\* the elements of a sequence without repetitions, in the order of their
\* first occurrence (the iteration order of a Set)
Distinct(seq) ==
    SelectSeq([n \in 1..Len(seq) |-> n],
              LAMBDA n : \A m \in 1..(n - 1) : seq[m] # seq[n])

DistinctValues(seq) == [n \in 1..Len(Distinct(seq)) |-> seq[Distinct(seq)[n]]]

\* String(x) of a number held in hundredths
HundredthsText(h) ==
    LET a     == IF h < 0 THEN 0 - h ELSE h
        whole == NumberText(a \div 100)
        cents == CharAt(Digits, ((a % 100) \div 10) + 1) \o CharAt(Digits, (a % 10) + 1)
    IN  (IF h < 0 THEN "-" ELSE "")
            \o (IF a % 100 = 0 THEN whole ELSE whole \o "." \o StripEnd(cents, "0"))

(***************************************************************************)
(* Values as the query engine meets them                                   *)
(*                                                                         *)
(* Besides the values of attributes ([str], [num], [float], [bool]) a      *)
(* value reached through an entry is [hundredths |-> h] for a statistic    *)
(* held in hundredths, [tags |-> array of strings], or an object:          *)
(* [entry |-> e], [payload |-> p], [entries |-> attributes],               *)
(* [range |-> time_range], [channel |-> statistics], [extreme |-> min or   *)
(* max].                                                                   *)
(***************************************************************************)
\* String(value)
StringOf(v) ==
    IF "str" \in DOMAIN v THEN v.str
    ELSE IF "num" \in DOMAIN v THEN NumberText(v.num)
    ELSE IF "float" \in DOMAIN v THEN v.float
    ELSE IF "bool" \in DOMAIN v THEN (IF v.bool THEN "true" ELSE "false")
    ELSE IF "hundredths" \in DOMAIN v THEN HundredthsText(v.hundredths)
    ELSE IF "tags" \in DOMAIN v THEN Join(v.tags, ",")
    ELSE "[object Object]"

\* the fields of an entry by the type of what they hold
StringFields == {"kind", "timestamp", "label", "direction", "commandClass", "property",
                 "propertyKey", "secondaryTags"}

NumberFields == {"nodeId", "endpointIndex", "samples"}

BooleanFields == {"success", "invalid"}

\* fields holding a string | number | boolean
ValueFields == {"rssi", "transmitOptions", "callbackId", "value", "prevValue"}

\* The keys of an entry in the order in which the pipeline creates them
\* (index.ts:155-162, 517-523, 561-568, 581-585, 609-614, 633-652,
\* 694-700, 833-844, 974-983)
KeyOrder ==
    <<"kind", "timestamp", "label", "direction", "message", "primaryTags", "secondaryTags",
      "nodeId", "commandClass", "endpointIndex", "property", "propertyKey", "prevValue",
      "value", "rssi", "transmitOptions", "callbackId", "payload", "invalid", "success",
      "attributes", "samples", "time_range",
      "channel 0", "channel 1", "channel 2", "channel 3">>

\* Object.keys(entry)
Keys(entry) == SelectSeq(KeyOrder, LAMBDA k : k \in DOMAIN entry)

\* entry[key] as a value
Field(entry, key) ==
    LET v == entry[key]
    IN  IF key \in StringFields THEN [str |-> v]
        ELSE IF key \in NumberFields THEN [num |-> v]
        ELSE IF key \in BooleanFields THEN [bool |-> v]
        ELSE IF key \in ValueFields THEN v
        ELSE IF key = "message" THEN (IF IsString(v) THEN v ELSE [payload |-> v])
        ELSE IF key = "payload" THEN [payload |-> v]
        ELSE IF key = "attributes" THEN [entries |-> v]
        ELSE IF key = "primaryTags" THEN [tags |-> v]
        ELSE IF key = "time_range" THEN [range |-> v]
        ELSE IF entry.kind = "BACKGROUND_RSSI" THEN [str |-> v]
        ELSE [channel |-> v]

\* value[part], <<>> for undefined
Property(value, part) ==
    IF "entry" \in DOMAIN value
    THEN IF part \in DOMAIN value.entry THEN <<Field(value.entry, part)>> ELSE <<>>
    ELSE IF "payload" \in DOMAIN value
    THEN IF part = "message" THEN <<[str |-> value.payload.message]>>
         ELSE IF part = "attributes" /\ HasKey(value.payload, "attributes")
              THEN <<[entries |-> value.payload.attributes]>>
         ELSE IF part = "nested" /\ HasKey(value.payload, "nested")
              THEN <<[payload |-> value.payload.nested]>>
         ELSE <<>>
    ELSE IF "entries" \in DOMAIN value THEN Get(value.entries, part)
    ELSE IF "range" \in DOMAIN value
    THEN IF part \in {"start", "end"} THEN <<[str |-> value.range[part]]>> ELSE <<>>
    ELSE IF "channel" \in DOMAIN value
    THEN IF part \in {"min", "max"} THEN <<[extreme |-> value.channel[part]]>>
         ELSE IF part \in {"median", "stddev"} THEN <<[hundredths |-> value.channel[part]]>>
         ELSE <<>>
    ELSE IF "extreme" \in DOMAIN value
    THEN IF part = "value" THEN <<[num |-> value.extreme.value]>>
         ELSE IF part = "timestamp" THEN <<[str |-> value.extreme.timestamp]>>
         ELSE <<>>
    ELSE IF "tags" \in DOMAIN value
    THEN IF part = "length" THEN <<[num |-> Len(value.tags)]>>
         ELSE IF AllDigits(part) /\ NumberText(ParseDigits(part)) = part
                 /\ ParseDigits(part) < Len(value.tags)
              THEN <<[str |-> At(value.tags, ParseDigits(part))]>>
         ELSE <<>>
    ELSE IF "str" \in DOMAIN value
    THEN IF part = "length" THEN <<[num |-> Len(value.str)]>>
         ELSE IF AllDigits(part) /\ NumberText(ParseDigits(part)) = part
                 /\ ParseDigits(part) < Len(value.str)
              THEN <<[str |-> CharAt(value.str, ParseDigits(part) + 1)]>>
         ELSE <<>>
    ELSE <<>>

\* typeof value === "number"
IsNumber(value) == DOMAIN value \in {{"num"}, {"float"}, {"hundredths"}}

\* a number in hundredths (a [float] of one or two decimals)
Hundredths(value) ==
    IF "num" \in DOMAIN value THEN value.num * 100
    ELSE IF "hundredths" \in DOMAIN value THEN value.hundredths
    ELSE LET dot   == IndexOf(value.float, ".")
             cents == SliceFrom(value.float, dot + 1)
         IN  ParseDigits(Slice(value.float, 0, dot)) * 100
                 + (IF Len(cents) = 1 THEN ParseDigits(cents) * 10 ELSE ParseDigits(cents))

\* the one form of a number: a whole number is [num], another [float]
Canonical(value) ==
    IF "hundredths" \in DOMAIN value
    THEN IF value.hundredths % 100 = 0 THEN [num |-> value.hundredths \div 100]
         ELSE [float |-> HundredthsText(value.hundredths)]
    ELSE value

\* a === b
StrictEquals(a, b) == Canonical(a) = Canonical(b)

(***************************************************************************)
(* Regular expressions of the queries                                      *)
(*                                                                         *)
(* The patterns evaluated are alternatives of literal text, and patterns   *)
(* the RegExp constructor rejects because an alternative starts with a     *)
(* quantifier.                                                             *)
(***************************************************************************)
\* query.match(/^\/(.+?)\/([gimuy]*)$/), <<>> for null
RegexDelimited(query) ==
    LET closing == {j \in 3..Len(query) :
                       /\ CharAt(query, 1) = "/"
                       /\ CharAt(query, j) = "/"
                       /\ ~Includes(SubSeq(query, 2, j - 1), NL)
                       /\ \A k \in (j + 1)..Len(query) : Includes("gimuy", CharAt(query, k))}
    IN  IF closing = {} THEN <<>>
        ELSE LET j == CHOOSE x \in closing : \A y \in closing : x <= y
             IN  <<[pattern |-> SubSeq(query, 2, j - 1), flags |-> SubSeq(query, j + 1, Len(query))]>>

\* some indicator of regexIndicators matches the query (a query of one line)
isLikelyRegex(query) ==
    LET has(c) == Includes(query, c)
        \* c1, then at least min characters other than c2, then c2
        bracketed(c1, c2, min) ==
            \E i \in 1..Len(query) : \E j \in (i + 1 + min)..Len(query) :
                /\ CharAt(query, i) = c1
                /\ CharAt(query, j) = c2
                /\ \A k \in (i + 1)..(j - 1) : CharAt(query, k) # c2
    IN  \/ has("|")
        \/ bracketed("[", "]", 1)
        \/ bracketed("(", ")", 0)
        \/ has("*") \/ has("+") \/ has("?")
        \/ \E i \in 1..Len(query) : \E j \in (i + 1)..Len(query) :
              CharAt(query, i) = "^" /\ CharAt(query, j) = "$"
        \/ \E c \in {"d", "w", "s", "W", "D", "S"} : has("\\" \o c)
        \/ has(".*")
        \/ has(".+")

Metacharacters == "\\^$.*+?()[]{}|"

\* the pattern is one the model evaluates
IsEvaluated(pattern) ==
    \A n \in 1..Len(Split(pattern, "|")) :
        LET alternative == Split(pattern, "|")[n]
        IN  \/ \A i \in 1..Len(alternative) : ~Includes(Metacharacters, CharAt(alternative, i))
            \/ Len(alternative) > 0 /\ Includes("*+?", CharAt(alternative, 1))

\* new RegExp(pattern, flags) throws
RegExpThrows(pattern, flags) ==
    \/ \E i, j \in 1..Len(flags) : i # j /\ CharAt(flags, i) = CharAt(flags, j)
    \/ \E n \in 1..Len(Split(pattern, "|")) :
          LET alternative == Split(pattern, "|")[n]
          IN  Len(alternative) > 0 /\ Includes("*+?", CharAt(alternative, 1))

\* text as a regex of the flags compares it
Fold(flags, text) == IF Includes(flags, "i") THEN toLowerCase(text) ELSE text

\* the first of the alternatives that matches text at p, 0 when none does
AlternativeAt(alternatives, text, p) ==
    LET matching == {a \in 1..Len(alternatives) :
                        /\ p + Len(alternatives[a]) <= Len(text)
                        /\ SubSeq(text, p + 1, p + Len(alternatives[a])) = alternatives[a]}
    IN  IF matching = {} THEN 0 ELSE CHOOSE a \in matching : \A b \in matching : a <= b

\* the leftmost match that starts in from..to: <<>>, or its start and end
LeftmostMatch(alternatives, text, from, to) ==
    LET starts == {p \in from..to : AlternativeAt(alternatives, text, p) # 0}
    IN  IF starts = {} THEN <<>>
        ELSE LET p == CHOOSE x \in starts : \A y \in starts : x <= y
             IN  <<[start |-> p,
                    end |-> p + Len(alternatives[AlternativeAt(alternatives, text, p)])]>>

\* what test() returns for a match found, and where it leaves lastIndex
TestResult(found, advancing) ==
    IF found = <<>> THEN [matched |-> FALSE, lastIndex |-> 0]
    ELSE [matched |-> TRUE, lastIndex |-> IF advancing THEN found[1].end ELSE 0]

\* regex.test(text) for a regex whose lastIndex is lastIndex: whether it
\* matches, and its lastIndex afterwards
RegExpTest(pattern, flags, text, lastIndex) ==
    LET alternatives == Split(pattern, "|")
        advancing == Includes(flags, "g") \/ Includes(flags, "y")
        from      == IF advancing THEN lastIndex ELSE 0
    IN  TestResult(LeftmostMatch([a \in 1..Len(alternatives) |-> Fold(flags, alternatives[a])],
                                 Fold(flags, text), from,
                                 IF Includes(flags, "y") THEN from ELSE Len(text)),
                   advancing)

(***************************************************************************)
(* LogQueryEngine (log-query-engine.ts)                                    *)
(*                                                                         *)
(* Array indices are the code's, counted from 0: At(array, i) is array[i]. *)
(* A Map is the function from its keys to its values; undefined and null   *)
(* are <<>>, a value that may be undefined is <<>> or <<value>>, and an     *)
(* object lacks the keys whose value is undefined.  Time values are those  *)
(* of parseTimestamp; arithmetic is exact.                                 *)
(***************************************************************************)
\* new Date(time).toISOString() for a time value of January 2024
toISOString(time) ==
    LET d(n)   == CharAt(Digits, n + 1)
        two(n) == d(n \div 10) \o d(n % 10)
        frac   == time % 1000
    IN  "2024-01-" \o two(time \div 86400000 + 1) \o "T" \o two((time \div 3600000) % 24)
            \o ":" \o two((time \div 60000) % 60) \o ":" \o two((time \div 1000) % 60)
            \o "." \o d(frac \div 100) \o d((frac \div 10) % 10) \o d(frac % 10) \o "Z"

\* the time values of the items of an array
TimesOf(array) == [n \in 1..Len(array) |-> parseTimestamp(array[n].timestamp)]

RECURSIVE FirstIndexLoop(_, _, _, _, _)
FirstIndexLoop(times, targetTime, left, right, res) ==
    IF left > right THEN res
    ELSE LET mid == (left + right) \div 2
         IN  IF At(times, mid) >= targetTime
             THEN FirstIndexLoop(times, targetTime, left, mid - 1, mid)
             ELSE FirstIndexLoop(times, targetTime, mid + 1, right, res)

findFirstIndexAtOrAfter(times, targetTime) ==
    FirstIndexLoop(times, targetTime, 0, Len(times) - 1, Len(times))

RECURSIVE LastIndexLoop(_, _, _, _, _)
LastIndexLoop(times, targetTime, left, right, res) ==
    IF left > right THEN res
    ELSE LET mid == (left + right) \div 2
         IN  IF At(times, mid) <= targetTime
             THEN LastIndexLoop(times, targetTime, mid + 1, right, mid)
             ELSE LastIndexLoop(times, targetTime, left, mid - 1, res)

findLastIndexAtOrBefore(times, targetTime) ==
    LastIndexLoop(times, targetTime, 0, Len(times) - 1, -1)

\* minTime is <<>> for the time value 0 (1970), which precedes every
\* timestamp; the result is <<>> for null
RECURSIVE MostRecentLoop(_, _, _, _, _, _)
MostRecentLoop(times, targetTime, minTime, left, right, res) ==
    IF left > right THEN res
    ELSE LET mid == (left + right) \div 2
             entryTime == At(times, mid)
         IN  IF entryTime < targetTime /\ (minTime = <<>> \/ entryTime >= minTime[1])
             THEN MostRecentLoop(times, targetTime, minTime, mid + 1, right, <<mid>>)
             ELSE IF entryTime >= targetTime
             THEN MostRecentLoop(times, targetTime, minTime, left, mid - 1, res)
             ELSE MostRecentLoop(times, targetTime, minTime, mid + 1, right, res)

findMostRecentIndexBefore(times, targetTime, minTime) ==
    MostRecentLoop(times, targetTime, minTime, 0, Len(times) - 1, <<>>)

\* TimeRangeIndex.buildIndex: the indices of each hour
TimeRangeIndex(es) ==
    LET hourBucket(entry) == Slice(toISOString(parseTimestamp(entry.timestamp)), 0, 13)
    IN  [buckets |->
            [bucket \in {hourBucket(es[n]) : n \in 1..Len(es)} |->
                SelectSeq(Indices(Len(es)), LAMBDA i : hourBucket(At(es, i)) = bucket)]]

\* TimeRangeIndex.findEntriesInRange; the index's entries are the engine's
findEntriesInRange(es, start, end) ==
    LET startIndex == findFirstIndexAtOrAfter(TimesOf(es), parseTimestamp(start))
        endIndex   == findLastIndexAtOrBefore(TimesOf(es), parseTimestamp(end))
    IN  [n \in 1..(endIndex - startIndex + 1) |-> startIndex + n - 1]

RECURSIVE PayloadParts(_)
PayloadParts(payload) ==
    <<payload.message>>
        \o (IF HasKey(payload, "attributes")
            THEN [n \in 1..Len(payload.attributes) |-> StringOf(payload.attributes[n].value)]
            ELSE <<>>)
        \o (IF HasKey(payload, "nested") THEN PayloadParts(payload.nested) ELSE <<>>)

\* extractAllStringFields(value, parts): the parts it pushes
ValueParts(value) ==
    IF "payload" \in DOMAIN value THEN PayloadParts(value.payload)
    ELSE IF "entries" \in DOMAIN value
    THEN [n \in 1..Len(value.entries) |-> StringOf(value.entries[n].value)]
    ELSE IF "tags" \in DOMAIN value THEN value.tags
    ELSE IF "range" \in DOMAIN value THEN <<value.range.start, value.range.end>>
    ELSE IF "channel" \in DOMAIN value
    THEN <<NumberText(value.channel.min.value), value.channel.min.timestamp,
           NumberText(value.channel.max.value), value.channel.max.timestamp,
           HundredthsText(value.channel.median), HundredthsText(value.channel.stddev)>>
    ELSE <<StringOf(value)>>

extractSearchableText(entry) ==
    Join(Flatten([n \in 1..Len(Keys(entry)) |-> ValueParts(Field(entry, Keys(entry)[n]))]), " ")

\* TextSearchIndex.buildIndex: contentMap, the text of index i at i
TextSearchIndex(es) ==
    [contentMap |-> [n \in 1..Len(es) |-> toLowerCase(extractSearchableText(es[n]))]]

\* the loop over contentMap.entries() with one regex
RECURSIVE SearchLoop(_, _, _, _, _)
SearchLoop(contentMap, pattern, flags, index, lastIndex) ==
    IF index >= Len(contentMap) THEN <<>>
    ELSE LET test == RegExpTest(pattern, flags, At(contentMap, index), lastIndex)
         IN  (IF test.matched THEN <<index>> ELSE <<>>)
                 \o SearchLoop(contentMap, pattern, flags, index + 1, test.lastIndex)

\* how a query is read: as a regular expression or as text, and the pattern
\* and flags of the expression (regexMatch is what RegexDelimited found)
QueryAsRegex(query, regexMatch) ==
    [isRegex |-> regexMatch # <<>> \/ isLikelyRegex(query),
     pattern |-> IF regexMatch # <<>> THEN regexMatch[1].pattern ELSE query,
     flags   |-> IF regexMatch # <<>> /\ regexMatch[1].flags # ""
                 THEN regexMatch[1].flags ELSE "i"]

\* the indices whose content includes term
Containing(contentMap, term) ==
    SelectSeq(Indices(Len(contentMap)), LAMBDA i : Includes(At(contentMap, i), term))

SearchAs(contentMap, query, regex) ==
    IF regex.isRegex
    THEN IF RegExpThrows(regex.pattern, regex.flags)
         THEN Containing(contentMap, toLowerCase(regex.pattern))
         ELSE SearchLoop(contentMap, regex.pattern, regex.flags, 0, 0)
    ELSE Containing(contentMap, toLowerCase(query))

\* TextSearchIndex.search
search(contentMap, query) ==
    SearchAs(contentMap, query, QueryAsRegex(query, RegexDelimited(query)))

\* a stable sort of {timestamp, index} items by time
RECURSIVE SortByTime(_)
SortByTime(items) ==
    IF Len(items) = 0 THEN <<>>
    ELSE LET i == CHOOSE j \in 1..Len(items) :
                      /\ \A k \in 1..Len(items) :
                            parseTimestamp(items[j].timestamp) <= parseTimestamp(items[k].timestamp)
                      /\ \A k \in 1..(j - 1) :
                            parseTimestamp(items[k].timestamp) # parseTimestamp(items[j].timestamp)
         IN  <<items[i]>> \o SortByTime(SubSeq(items, 1, i - 1) \o SubSeq(items, i + 1, Len(items)))

\* BackgroundRSSIIndex.buildIndex
BackgroundRSSIIndex(es) ==
    LET rssi == SelectSeq(Indices(Len(es)),
                          LAMBDA i : At(es, i).kind \in {"BACKGROUND_RSSI",
                                                         "BACKGROUND_RSSI_SUMMARY"})
    IN  [rssiEntries |-> SortByTime([n \in 1..Len(rssi) |->
                            [timestamp |-> At(es, rssi[n]).timestamp, index |-> rssi[n]]])]

\* BackgroundRSSIIndex.findMostRecentBefore: maxAge is <<>> or <<seconds>>
findMostRecentBefore(rssiEntries, timestamp, maxAge) ==
    LET targetTime  == parseTimestamp(timestamp)
        minTime     == IF maxAge # <<>> /\ maxAge[1] # 0
                       THEN <<targetTime - maxAge[1] * 1000>> ELSE <<>>
        resultIndex == findMostRecentIndexBefore(TimesOf(rssiEntries), targetTime, minTime)
    IN  IF resultIndex # <<>> THEN <<At(rssiEntries, resultIndex[1]).index>> ELSE <<>>

\* LogQueryEngine.buildIndexes
buildIndexes(es) ==
    [byTimestamp |->
        [timestamp \in {es[n].timestamp : n \in 1..Len(es)} |->
            CHOOSE i \in 0..(Len(es) - 1) :
                /\ At(es, i).timestamp = timestamp
                /\ \A j \in (i + 1)..(Len(es) - 1) : At(es, j).timestamp # timestamp],
     byNodeId |->
        [nodeId \in {es[n].nodeId : n \in {m \in 1..Len(es) : "nodeId" \in DOMAIN es[m]}} |->
            SelectSeq(Indices(Len(es)),
                      LAMBDA i : "nodeId" \in DOMAIN At(es, i) /\ At(es, i).nodeId = nodeId)],
     byEntryType |->
        [kind \in {es[n].kind : n \in 1..Len(es)} |->
            SelectSeq(Indices(Len(es)), LAMBDA i : At(es, i).kind = kind)],
     timeRangeIndex |-> TimeRangeIndex(es),
     textSearchIndex |-> TextSearchIndex(es),
     backgroundRSSIIndex |-> BackgroundRSSIIndex(es)]

\* new LogQueryEngine(transformedEntries)
LogQueryEngine(transformedEntries) ==
    [entries |-> transformedEntries, indexes |-> buildIndexes(transformedEntries)]

\* map.get(key) || []
GetOrEmpty(map, key) == IF key \in DOMAIN map THEN map[key] ELSE <<>>

\* the indices of indices that are among timeRangeIndices
AmongIndices(indices, timeRangeIndices) ==
    SelectSeq(indices, LAMBDA index :
                  \E n \in 1..Len(timeRangeIndices) : timeRangeIndices[n] = index)

\* the indices of indices that lie in findEntriesInRange(timeRange)
InTimeRange(this, indices, timeRange) ==
    AmongIndices(indices, findEntriesInRange(this.entries, timeRange.start, timeRange.end))

\* the entries at indices
EntriesAt(es, indices) == [n \in 1..Len(indices) |-> At(es, indices[n])]

\* the indices of the node's entries, within the time range when one is given
NodeIndices(this, args) ==
    IF HasKey(args, "timeRange")
    THEN InTimeRange(this, GetOrEmpty(this.indexes.byNodeId, args.nodeId), args.timeRange)
    ELSE GetOrEmpty(this.indexes.byNodeId, args.nodeId)

\* getValueByPath(entry, path), <<>> for undefined
RECURSIVE FollowPath(_, _)
FollowPath(current, parts) ==
    IF Len(parts) = 0 \/ current = <<>> THEN current
    ELSE FollowPath(Property(current[1], Head(parts)), Tail(parts))

getValueByPath(entry, path) ==
    LET parts  == SelectSeq(Split(path, "."), LAMBDA p : p # "attributes")
        direct == FollowPath(<<[entry |-> entry]>>, parts)
    IN  IF direct # <<>> THEN direct
        ELSE IF Len(parts) = 1 /\ HasKey(entry, "attributes")
        THEN Get(entry.attributes, parts[1])
        ELSE <<>>

MatchAs(actualStr, filterStr, regex) ==
    IF regex.isRegex
    THEN IF RegExpThrows(regex.pattern, regex.flags)
         THEN Includes(toLowerCase(actualStr), toLowerCase(regex.pattern))
         ELSE RegExpTest(regex.pattern, regex.flags, actualStr, 0).matched
    ELSE Includes(toLowerCase(actualStr), toLowerCase(filterStr))

\* the "match" case of applyAttributeFilter
MatchFilter(actualStr, filterStr) ==
    MatchAs(actualStr, filterStr, QueryAsRegex(filterStr, RegexDelimited(filterStr)))

\* the comparison of two numbers or of two strings, false for anything else
CompareValues(actualValue, filterValue, numbers(_, _), strings(_, _)) ==
    IF IsNumber(actualValue) /\ IsNumber(filterValue)
    THEN numbers(Hundredths(actualValue), Hundredths(filterValue))
    ELSE IF IsString(actualValue) /\ IsString(filterValue)
    THEN strings(actualValue.str, filterValue.str)
    ELSE FALSE

\* the switch over filter.operator
ApplyOperator(operator, actualValue, filterValue) ==
    IF operator = "eq" THEN StrictEquals(actualValue, filterValue)
    ELSE IF operator = "ne" THEN ~StrictEquals(actualValue, filterValue)
    ELSE IF operator = "gt"
    THEN CompareValues(actualValue, filterValue,
                       LAMBDA a, b : a > b, LAMBDA a, b : StringLess(b, a))
    ELSE IF operator = "gte"
    THEN CompareValues(actualValue, filterValue,
                       LAMBDA a, b : a >= b, LAMBDA a, b : ~StringLess(a, b))
    ELSE IF operator = "lt"
    THEN CompareValues(actualValue, filterValue,
                       LAMBDA a, b : a < b, LAMBDA a, b : StringLess(a, b))
    ELSE IF operator = "lte"
    THEN CompareValues(actualValue, filterValue,
                       LAMBDA a, b : a <= b, LAMBDA a, b : ~StringLess(b, a))
    ELSE IF operator = "match"
    THEN MatchFilter(StringOf(actualValue), StringOf(filterValue))
    ELSE FALSE

\* the filter applied to the value found at its path (<<>> for undefined)
FilterActual(filter, actual) ==
    IF actual = <<>> THEN FALSE ELSE ApplyOperator(filter.operator, actual[1], filter.value)

\* filter is [path, operator, value]
applyAttributeFilter(entry, filter) ==
    FilterActual(filter, getValueByPath(entry, filter.path))

passesAttributeFilters(entry, filters) ==
    \A n \in 1..Len(filters) : applyAttributeFilter(entry, filters[n])

\* Math.round(calculateMean(values) * 100) for values counted in a unit of
\* which den / num make a hundredth of the result's unit
RoundedMean(values, num, den) ==
    (2 * num * Sum(values) + Len(values) * den) \div (2 * Len(values) * den)

\* Math.round(this.calculateStdDev(values) * 100), likewise: with n values
\* of sum S and sum of squares Q the deviation is sqrt(n*Q - S*S) / n
RoundedStdDev(values, num, den) ==
    LET n == Len(values)
        S == Sum(values)
        Q == Sum([i \in 1..n |-> values[i] * values[i]])
        V == n * Q - S * S
    IN  (FloorSqrt(0, 46340, 4 * num * num * V) + n * den) \div (2 * n * den)

\* {min, max, mean, median, stddev} of values counted in such a unit: min
\* and max in that unit, median in hundredths of it, mean and stddev in
\* hundredths of the result's unit
Statistics(values, num, den) ==
    [min    |-> SortNumbers(values)[1],
     max    |-> SortNumbers(values)[Len(values)],
     mean   |-> RoundedMean(values, num, den),
     median |-> calculateMedian(values),
     stddev |-> RoundedStdDev(values, num, den)]

\* rssiString.match(/(-?\d+)/) and parseInt, <<>> for null
extractRSSIValue(rssiString) ==
    LET digits == {i \in 1..Len(rssiString) : IsDigit(CharAt(rssiString, i))}
    IN  IF digits = {} THEN <<>>
        ELSE LET first == CHOOSE i \in digits : \A j \in digits : i <= j
                 from  == IF first > 1 /\ CharAt(rssiString, first - 1) = "-"
                          THEN first - 1 ELSE first
             IN  <<parseInt(SliceFrom(rssiString, from - 1))>>

\* the differences of consecutive time values
Intervals(times) == [n \in 1..(Len(times) - 1) |-> times[n + 1] - times[n]]

\* intervals are counted in milliseconds and reported in seconds
IntervalStatistics(intervals) == Statistics(intervals, 1, 10)

OfKind(es, kind) == SelectSeq(es, LAMBDA entry : entry.kind = kind)

getLogSummary(this) ==
    IF Len(this.entries) = 0
    THEN [totalEntries |-> 0,
          timeRange |-> [start |-> "", end |-> ""],
          nodeIds |-> <<>>,
          networkActivity |-> [total |-> [incoming |-> 0, outgoing |-> 0, total |-> 0],
                               byNode |-> <<>>],
          unsolicitedReportIntervals |-> <<>>]
    ELSE
    LET es == this.entries
        nodeIds == Ascending(DOMAIN this.indexes.byNodeId)
        count(kind, nodes) ==
            Len(SelectSeq(es, LAMBDA entry : entry.kind = kind /\ entry.nodeId \in nodes))
        activity(nodes) ==
            [incoming |-> count("INCOMING_COMMAND", nodes),
             outgoing |-> count("SEND_DATA_REQUEST", nodes),
             total    |-> count("INCOMING_COMMAND", nodes) + count("SEND_DATA_REQUEST", nodes)]
        intervals == Intervals(TimesOf(OfKind(es, "INCOMING_COMMAND")))
    IN  [totalEntries |-> Len(es),
         timeRange |-> [start |-> es[1].timestamp, end |-> es[Len(es)].timestamp],
         nodeIds |-> nodeIds,
         networkActivity |->
            [total  |-> activity(DOMAIN this.indexes.byNodeId),
             byNode |-> [nodeId \in DOMAIN this.indexes.byNodeId |-> activity({nodeId})]],
         unsolicitedReportIntervals |->
            IF Len(intervals) > 0 THEN <<IntervalStatistics(intervals)>> ELSE <<>>]

\* message.match(/\[([^\]]+)\]/)?.[1], <<>> when there is no match
Bracketed(message) ==
    LET opens == {i \in 1..Len(message) :
                     /\ CharAt(message, i) = "["
                     /\ IndexOf(SliceFrom(message, i), "]") > 0}
    IN  IF opens = {} THEN <<>>
        ELSE LET i == CHOOSE x \in opens : \A y \in opens : x <= y
             IN  <<Slice(message, i, i + IndexOf(SliceFrom(message, i), "]"))>>

\* the message the command class is read from: payload.message, or
\* payload.nested.message when that is empty; <<>> when there is none
CommandMessage(entry) ==
    IF ~HasKey(entry, "payload") THEN <<>>
    ELSE IF entry.payload.message # "" THEN <<entry.payload.message>>
    ELSE IF HasKey(entry.payload, "nested") /\ entry.payload.nested.message # ""
    THEN <<entry.payload.nested.message>>
    ELSE <<>>

\* the bracketed part of a message, or the message when it has none
BracketedOrWhole(message, bracketed) == IF bracketed # <<>> THEN bracketed ELSE message

CommandClassOfMessage(message) ==
    IF message = <<>> THEN <<>> ELSE BracketedOrWhole(message, Bracketed(message[1]))

\* log-query-engine.ts:1072-1108: the command class of an entry for the
\* node summary, <<>> when there is none
SummaryCommandClass(entry) ==
    IF entry.kind \in {"INCOMING_COMMAND", "SEND_DATA_REQUEST"}
    THEN CommandClassOfMessage(CommandMessage(entry))
    ELSE IF /\ entry.kind \in {"VALUE_ADDED", "VALUE_UPDATED", "VALUE_REMOVED",
                               "METADATA_UPDATED"}
            /\ entry.commandClass # ""
    THEN <<entry.commandClass>>
    ELSE <<>>

\* log-query-engine.ts:1111-1148
MergedCommandClasses(commandClassesSet) ==
    LET has(name) == \E n \in 1..Len(commandClassesSet) : Includes(commandClassesSet[n], name)
        transport == {"Security2CC", "SecurityCC", "TransportServiceCC", "SupervisionCC",
                      "MultiCommandCC"}
    IN  SortStrings(
            (IF has("Security2CC") THEN <<"Security S2">> ELSE <<>>)
            \o (IF has("SecurityCC") THEN <<"Security S0">> ELSE <<>>)
            \o (IF has("TransportServiceCC") THEN <<"Transport Service">> ELSE <<>>)
            \o (IF has("SupervisionCC") THEN <<"Supervision">> ELSE <<>>)
            \o (IF has("MultiCommandCC") THEN <<"Multi Command">> ELSE <<>>)
            \o SelectSeq(commandClassesSet,
                         LAMBDA cc : \A name \in transport : ~Includes(cc, name)))

\* the value of a query that ends in an exception
Throws(error) == [throws |-> error]

\* log-query-engine.ts:930-933, 1011-1014: the time range of the whole log
WholeRange(es) ==
    [start |-> IF Len(es) > 0 THEN es[1].timestamp ELSE "",
     end   |-> IF Len(es) > 0 THEN es[Len(es)].timestamp ELSE ""]

\* log-query-engine.ts:948-958: the RSSI values of the incoming commands
\* that carry one
RSSIValuesOf(measured) ==
    [n \in 1..Len(measured) |-> extractRSSIValue(measured[n].rssi.str)[1]]

RSSIValues(withRSSI) ==
    RSSIValuesOf(SelectSeq(withRSSI, LAMBDA entry : extractRSSIValue(entry.rssi.str) # <<>>))

\* log-query-engine.ts:1017-1050: the intervals between the reports, and
\* from the start of the range to the first and from the last to its end
IntervalsWithin(reportTimes, rangeStartTime, rangeEndTime) ==
    (IF reportTimes[1] > rangeStartTime THEN <<reportTimes[1] - rangeStartTime>> ELSE <<>>)
        \o Intervals(reportTimes)
        \o (IF rangeEndTime > reportTimes[Len(reportTimes)]
            THEN <<rangeEndTime - reportTimes[Len(reportTimes)]>> ELSE <<>>)

ReportIntervals(unsolicitedReports, analysisTimeRange) ==
    IF /\ Len(unsolicitedReports) > 0
       /\ analysisTimeRange.start # "" /\ analysisTimeRange.end # ""
    THEN IntervalsWithin(TimesOf(unsolicitedReports),
                         parseTimestamp(analysisTimeRange.start),
                         parseTimestamp(analysisTimeRange.end))
    ELSE <<>>

\* log-query-engine.ts:1067-1109: the command classes of the entries
CommandClassesOf(classified) ==
    DistinctValues([n \in 1..Len(classified) |-> SummaryCommandClass(classified[n])[1]])

CommandClassesSet(filteredEntries) ==
    CommandClassesOf(SelectSeq(filteredEntries,
                               LAMBDA entry : SummaryCommandClass(entry) # <<>>))

\* log-query-engine.ts:976-992
CommandCounts(incoming, outgoing) ==
    [incoming |-> incoming, outgoing |-> outgoing, total |-> incoming + outgoing]

\* log-query-engine.ts:1150-1157: the summary of the statistics
NodeSummaryResult(args, filteredEntries, rssiValues, commandCounts, intervals, commandClasses) ==
    Object(
        [nodeId |-> args.nodeId,
         timeRange |-> [start |-> filteredEntries[1].timestamp,
                        end   |-> filteredEntries[Len(filteredEntries)].timestamp],
         commandCounts |-> commandCounts,
         commandClasses |-> commandClasses],
        [rssiStatistics |->
            IF Len(rssiValues) > 0 THEN <<Statistics(rssiValues, 100, 1)>> ELSE <<>>,
         unsolicitedReportIntervals |->
            IF Len(intervals) > 0 THEN <<IntervalStatistics(intervals)>> ELSE <<>>])

\* log-query-engine.ts:943-1157: the statistics of a node with entries;
\* extractRSSIValue throws on an rssi that is no string
NodeStatistics(args, filteredEntries, withRSSI, unsolicitedReports, analysisTimeRange) ==
    IF \E n \in 1..Len(withRSSI) : ~IsString(withRSSI[n].rssi)
    THEN Throws("TypeError")
    ELSE NodeSummaryResult(args, filteredEntries, RSSIValues(withRSSI),
                           CommandCounts(Len(unsolicitedReports),
                                         Len(OfKind(filteredEntries, "SEND_DATA_REQUEST"))),
                           ReportIntervals(unsolicitedReports, analysisTimeRange),
                           MergedCommandClasses(CommandClassesSet(filteredEntries)))

\* log-query-engine.ts:927-1157
NodeSummaryOf(args, wholeRange, filteredEntries) ==
    IF Len(filteredEntries) = 0
    THEN [nodeId |-> args.nodeId,
          timeRange |-> IF HasKey(args, "timeRange") THEN args.timeRange ELSE wholeRange,
          commandCounts |-> [incoming |-> 0, outgoing |-> 0, total |-> 0],
          commandClasses |-> <<>>]
    ELSE NodeStatistics(args, filteredEntries,
                        SelectSeq(filteredEntries,
                                  LAMBDA entry : /\ entry.kind = "INCOMING_COMMAND"
                                                 /\ HasKey(entry, "rssi")
                                                 /\ Truthy(entry.rssi)),
                        OfKind(filteredEntries, "INCOMING_COMMAND"),
                        IF HasKey(args, "timeRange") THEN args.timeRange ELSE wholeRange)

\* args is [nodeId] with, optionally, timeRange
getNodeSummary(this, args) ==
    NodeSummaryOf(args, WholeRange(this.entries),
                  EntriesAt(this.entries, NodeIndices(this, args)))

\* entry.callbackId as a key of callbackMap: <<>> for undefined
CallbackIdOf(entry) == IF HasKey(entry, "callbackId") THEN <<entry.callbackId>> ELSE <<>>

\* log-query-engine.ts:1221-1231: callbackMap after the first pass over
\* filteredIndices[from..]
RECURSIVE CallbackMap(_, _, _, _)
CallbackMap(es, filteredIndices, from, map) ==
    IF from > Len(filteredIndices) THEN map
    ELSE LET index == filteredIndices[from]
             entry == At(es, index)
             key   == CallbackIdOf(entry)
         IN  CallbackMap(es, filteredIndices, from + 1,
                 IF entry.kind = "SEND_DATA_REQUEST"
                 THEN [k \in DOMAIN map \cup {key} |->
                          IF k = key THEN [requestIndex |-> index] ELSE map[k]]
                 ELSE IF entry.kind = "SEND_DATA_CALLBACK" /\ key \in DOMAIN map
                 THEN [map EXCEPT ![key] = [requestIndex |-> @.requestIndex,
                                            callbackIndex |-> index]]
                 ELSE map)

\* Number(value)
NumberOf(value) ==
    IF "num" \in DOMAIN value \/ "float" \in DOMAIN value THEN value
    ELSE IF "bool" \in DOMAIN value THEN [num |-> IF value.bool THEN 1 ELSE 0]
    ELSE IF AllDigits(Trim(value.str)) THEN [num |-> ParseDigits(Trim(value.str))]
    ELSE IF Trim(value.str) = "" THEN [num |-> 0]
    ELSE [nan |-> TRUE]

\* log-query-engine.ts:1236-1261
IncomingEvent(entry) ==
    LET message == CommandMessage(entry)
    IN  Object([timestamp |-> entry.timestamp, direction |-> "incoming"],
               [rssi |-> IF HasKey(entry, "rssi") THEN <<entry.rssi>> ELSE <<>>,
                commandClass |-> IF message = <<>> THEN <<>> ELSE Bracketed(message[1])])

\* log-query-engine.ts:1270-1307: the event of a request and the attributes
\* of its callback
OutgoingEventWith(entry, attributes) ==
    LET truthy(key)  == Get(attributes, key) # <<>> /\ Truthy(Get(attributes, key)[1])
        text(key)    == IF truthy(key) THEN <<StringOf(Get(attributes, key)[1])>> ELSE <<>>
    IN  Object([timestamp |-> entry.timestamp, direction |-> "outgoing"],
               [callbackId      |-> CallbackIdOf(entry),
                transmitOptions |-> IF HasKey(entry, "transmitOptions")
                                    THEN <<entry.transmitOptions>> ELSE <<>>,
                transmitStatus  |-> text("transmit status"),
                routingAttempts |-> IF truthy("routing attempts")
                                    THEN <<NumberOf(Get(attributes, "routing attempts")[1])>>
                                    ELSE <<>>,
                ackRSSI         |-> text("ACK RSSI"),
                txPower         |-> text("TX power")])

\* log-query-engine.ts:1264-1274: the attributes of the callback the map
\* holds for the request, none when it holds no callback
CallbackAttributes(es, callbackInfo) ==
    IF /\ HasKey(callbackInfo, "callbackIndex")
       /\ At(es, callbackInfo.callbackIndex).kind = "SEND_DATA_CALLBACK"
    THEN At(es, callbackInfo.callbackIndex).attributes
    ELSE <<>>

\* log-query-engine.ts:1262-1308
OutgoingEvent(es, entry, callbackMap) ==
    OutgoingEventWith(entry, CallbackAttributes(es, callbackMap[CallbackIdOf(entry)]))

\* log-query-engine.ts:1234-1263: the indices of the entries of the
\* direction asked for
RelevantIndices(es, filteredIndices, direction) ==
    SelectSeq(filteredIndices, LAMBDA index :
        \/ /\ At(es, index).kind = "INCOMING_COMMAND"
           /\ direction \in {"incoming", "both"}
        \/ /\ At(es, index).kind = "SEND_DATA_REQUEST"
           /\ direction \in {"outgoing", "both"})

\* log-query-engine.ts:1233-1310
CommunicationEvent(es, entry, callbackMap) ==
    IF entry.kind = "INCOMING_COMMAND" THEN IncomingEvent(entry)
    ELSE OutgoingEvent(es, entry, callbackMap)

CommunicationEvents(es, relevant, callbackMap) ==
    [n \in 1..Len(relevant) |-> CommunicationEvent(es, At(es, relevant[n]), callbackMap)]

\* log-query-engine.ts:1312-1326
CommunicationPage(args, communicationEvents, offset, limit) ==
    [nodeId     |-> args.nodeId,
     events     |-> Slice(communicationEvents, offset, offset + limit),
     totalCount |-> Len(communicationEvents),
     hasMore    |-> offset + limit < Len(communicationEvents)]

\* log-query-engine.ts:1175-1326
CommunicationOf(es, args, filteredIndices) ==
    CommunicationPage(args,
        CommunicationEvents(es,
            RelevantIndices(es, filteredIndices,
                            IF HasKey(args, "direction") THEN args.direction ELSE "both"),
            CallbackMap(es, filteredIndices, 1, <<>>)),
        IF HasKey(args, "offset") THEN args.offset ELSE 0,
        IF HasKey(args, "limit") THEN args.limit ELSE 100)

\* args is [nodeId] with, optionally, timeRange, direction, limit, offset
getNodeCommunication(this, args) ==
    CommunicationOf(this.entries, args, NodeIndices(this, args))

\* entryKinds.some(...) of the queries: a kind passes when it contains one
\* of the kinds asked for
PassesKinds(entry, entryKinds) ==
    \E n \in 1..Len(entryKinds) : Includes(entry.kind, entryKinds[n])

\* a query that is usable as soon as it is given
HasQuery_AnyString(args) == HasKey(args, "query")

\* the filters searchLogEntries applies are those args gives a value to
HasQuery(args) == HasKey(args, "query") /\ Len(Trim(args.query)) > 0

HasEntryKinds(args) == HasKey(args, "entryKinds") /\ Len(args.entryKinds) > 0

HasTimeRange(args) ==
    HasKey(args, "timeRange") /\ args.timeRange.start # "" /\ args.timeRange.end # ""

HasAttributeFilters(args) ==
    HasKey(args, "attributeFilters") /\ Len(args.attributeFilters) > 0

\* log-query-engine.ts:1359-1365
SearchFound(this, args) ==
    IF HasQuery(args) THEN search(this.indexes.textSearchIndex.contentMap, args.query)
    ELSE Indices(Len(this.entries))

\* log-query-engine.ts:1368-1378
SearchInRange(this, args, searchIndices) ==
    IF HasTimeRange(args) THEN InTimeRange(this, searchIndices, args.timeRange)
    ELSE searchIndices

\* log-query-engine.ts:1381-1391
SearchOfKinds(this, args, searchIndices) ==
    IF HasEntryKinds(args)
    THEN SelectSeq(searchIndices,
                   LAMBDA index : PassesKinds(At(this.entries, index), args.entryKinds))
    ELSE searchIndices

\* log-query-engine.ts:1394-1399
SearchFiltered(this, args, searchIndices) ==
    IF HasAttributeFilters(args)
    THEN SelectSeq(searchIndices, LAMBDA index :
             passesAttributeFilters(At(this.entries, index), args.attributeFilters))
    ELSE searchIndices

\* a page that reports more results when it ends with the last of them
SearchPage_ToTheEnd(this, args, searchIndices, offset, limit) ==
    [query        |-> IF HasKey(args, "query") THEN args.query ELSE "",
     matches      |-> EntriesAt(this.entries, Slice(searchIndices, offset, offset + limit)),
     totalMatches |-> Len(searchIndices),
     hasMore      |-> offset + limit <= Len(searchIndices)]

\* log-query-engine.ts:1404-1416
SearchPage(this, args, searchIndices, offset, limit) ==
    [query        |-> IF HasKey(args, "query") THEN args.query ELSE "",
     matches      |-> EntriesAt(this.entries, Slice(searchIndices, offset, offset + limit)),
     totalMatches |-> Len(searchIndices),
     hasMore      |-> offset + limit < Len(searchIndices)]

\* args has, optionally, query, entryKinds, timeRange, attributeFilters,
\* limit, offset
searchLogEntries(this, args) ==
    IF ~HasQuery(args) /\ ~HasEntryKinds(args) /\ ~HasTimeRange(args)
           /\ ~HasAttributeFilters(args)
    THEN [query |-> IF HasKey(args, "query") THEN args.query ELSE "",
          matches |-> <<>>, totalMatches |-> 0, hasMore |-> FALSE,
          error |-> "At least one of the following parameters must be provided: query, entryKinds, timeRange, or attributeFilters"]
    ELSE SearchPage(this, args,
             SearchFiltered(this, args,
                 SearchOfKinds(this, args, SearchInRange(this, args, SearchFound(this, args)))),
             IF HasKey(args, "offset") THEN args.offset ELSE 0,
             IF HasKey(args, "limit") THEN args.limit ELSE 100)

\* log-query-engine.ts:1432-1439
TimeWindow(targetTime, beforeSeconds, afterSeconds) ==
    [start |-> toISOString(targetTime - beforeSeconds * 1000),
     end   |-> toISOString(targetTime + afterSeconds * 1000)]

\* log-query-engine.ts:1464-1476
EventsPage(es, args, timeWindow, filteredIndices, offset, limit) ==
    [targetTimestamp |-> args.timestamp,
     timeWindow      |-> timeWindow,
     events          |-> EntriesAt(es, Slice(filteredIndices, offset, offset + limit)),
     totalCount      |-> Len(filteredIndices),
     hasMore         |-> offset + limit < Len(filteredIndices)]

\* log-query-engine.ts:1448-1459
EventsOfKinds(es, args, timeRangeIndices) ==
    IF HasKey(args, "entryKinds") /\ Len(args.entryKinds) > 0
    THEN SelectSeq(timeRangeIndices,
                   LAMBDA index : PassesKinds(At(es, index), args.entryKinds))
    ELSE timeRangeIndices

\* log-query-engine.ts:1442-1476
EventsWithin(es, args, timeWindow) ==
    EventsPage(es, args, timeWindow,
               EventsOfKinds(es, args, findEntriesInRange(es, timeWindow.start, timeWindow.end)),
               IF HasKey(args, "offset") THEN args.offset ELSE 0,
               IF HasKey(args, "limit") THEN args.limit ELSE 100)

\* args is [timestamp] with, optionally, beforeSeconds, afterSeconds,
\* entryKinds, limit, offset
getEventsAroundTimestamp(this, args) ==
    EventsWithin(this.entries, args,
        TimeWindow(parseTimestamp(args.timestamp),
                   IF HasKey(args, "beforeSeconds") THEN args.beforeSeconds ELSE 30,
                   IF HasKey(args, "afterSeconds") THEN args.afterSeconds ELSE 30))

\* the keys of rssiEntry that carry a channel
ChannelsOf(rssiEntry) == DOMAIN rssiEntry \ {"kind", "timestamp", "samples", "time_range"}

\* log-query-engine.ts:1494-1591: the reading of the entry found.  A
\* statistic the summary lacks (mean) is missing here too.
RSSIReading(args, rssiEntry) ==
    LET age   == (parseTimestamp(args.timestamp) - parseTimestamp(rssiEntry.timestamp)
                      + 500) \div 1000
        asked == {key \in ChannelsOf(rssiEntry) :
                     HasKey(args, "channel") => key = "channel " \o NumberText(args.channel)}
    IN  IF rssiEntry.kind = "BACKGROUND_RSSI"
        THEN <<[timestamp |-> rssiEntry.timestamp,
                age       |-> age,
                type      |-> "single",
                channels  |-> [key \in {k \in asked : extractRSSIValue(rssiEntry[k]) # <<>>} |->
                                  [value |-> extractRSSIValue(rssiEntry[key])[1]]]]>>
        ELSE IF rssiEntry.kind = "BACKGROUND_RSSI_SUMMARY"
        THEN <<[timestamp |-> rssiEntry.timestamp,
                age       |-> age,
                type      |-> "summary",
                channels  |-> [key \in asked |->
                                  [min    |-> rssiEntry[key].min.value,
                                   max    |-> rssiEntry[key].max.value,
                                   median |-> rssiEntry[key].median,
                                   stddev |-> rssiEntry[key].stddev]]]>>
        ELSE <<>>

\* log-query-engine.ts:1490-1494: <<>> when no entry is found
RSSIReadingAt(this, args, rssiIndex) ==
    IF rssiIndex = <<>> THEN <<>> ELSE RSSIReading(args, At(this.entries, rssiIndex[1]))

\* args is [timestamp] with, optionally, maxAge, channel; <<>> for
\* undefined
getBackgroundRSSIBefore(this, args) ==
    RSSIReadingAt(this, args,
        findMostRecentBefore(this.indexes.backgroundRSSIIndex.rssiEntries, args.timestamp,
                             IF HasKey(args, "maxAge") THEN <<args.maxAge>> ELSE <<>>))

\* a getLogChunk that reports more entries whenever the chunk is full
getLogChunk_FullChunk(this, args) ==
    LET totalEntries == Len(this.entries)
        endIndex     == Min(args.startIndex + args.count, totalEntries)
    IN  IF args.startIndex < 0 \/ args.startIndex >= totalEntries
        THEN [entries |-> <<>>, startIndex |-> args.startIndex, endIndex |-> args.startIndex,
              totalEntries |-> totalEntries, hasMore |-> FALSE]
        ELSE [entries |-> Slice(this.entries, args.startIndex, endIndex),
              startIndex |-> args.startIndex, endIndex |-> endIndex - 1,
              totalEntries |-> totalEntries,
              hasMore |-> endIndex - args.startIndex = args.count]

\* args is [startIndex, count]
getLogChunk(this, args) ==
    LET totalEntries == Len(this.entries)
        endIndex     == Min(args.startIndex + args.count, totalEntries)
    IN  IF args.startIndex < 0 \/ args.startIndex >= totalEntries
        THEN [entries |-> <<>>, startIndex |-> args.startIndex, endIndex |-> args.startIndex,
              totalEntries |-> totalEntries, hasMore |-> FALSE]
        ELSE [entries |-> Slice(this.entries, args.startIndex, endIndex),
              startIndex |-> args.startIndex, endIndex |-> endIndex - 1,
              totalEntries |-> totalEntries, hasMore |-> endIndex < totalEntries]

(***************************************************************************)
(* The whole pipeline, processLogContent (index.ts:1034-1074), and the     *)
(* engine built from its result (zwave-log-analyzer.ts:80-84).  Each stage *)
(* is a TransformStream of the default strategy: it is handed its next     *)
(* chunk once the stage after it has taken what it enqueued before.        *)
(***************************************************************************)
\* records of a log text
MaxRecords == 2

RECURSIVE Pad(_)
Pad(n) == IF n = 0 THEN "" ELSE " " \o Pad(n - 1)

\* the continuation lines of a record as the logger writes them: aligned
\* with the message of the first line (the indentation of index.ts:142)
Aligned(label, ls) ==
    [i \in 1..Len(ls) |-> Pad(Len(SampleTimestamp) + 1 + Len(label) + 3) \o ls[i]]

\* what follows the timestamp in the records of the sample logs
SendDataBody ==
    <<"DRIVER » [Node 5] [REQ] [SendData]">>
        \o Aligned("DRIVER", <<"| transmit options: ACK", "| callback id: 7",
                               "+-[BasicCCSet]", "    target value: 255">>)

CallbackBody ==
    <<"DRIVER « [REQ] [SendData]">>
        \o Aligned("DRIVER", <<"  callback id: 7", "  transmit status: OK">>)

ApplicationCommandBody ==
    <<"DRIVER « [Node 5] [REQ] [BridgeApplicationCommand]">>
        \o Aligned("DRIVER", <<"| RSSI: -90 dBm", "+-[BasicCCReport]",
                               "    current value: 0">>)

ValueUpdatedBody == <<"CNTRLR   [Node 5] [~] [Basic] currentValue: 0 => 1">>

\* a value line whose message lacks the value
ValueAddedBody == <<"CNTRLR   [Node 5] [+] [Basic] currentValue">>

InterviewBody == <<"CNTRLR   Interview completed">>

QueuesBusyBody == <<"DRIVER   all queues busy">>

\* a SendData request that carries no command
BareRequestBody ==
    <<"DRIVER » [Node 5] [REQ] [SendData]">>
        \o Aligned("DRIVER", <<"  callback id: 7", "  transmit options: ACK">>)

\* the two records of a log whose continuation lines are indented by two
\* spaces
IndentedRequestBody ==
    <<"DRIVER » [Node 5] [REQ] [SendData]", "  callback id: 7", "  transmit options: ACK">>

IndentedCallbackBody ==
    <<"DRIVER « [REQ] [SendData]", "  callback id: 7", "  transmit status: OK">>

Bodies ==
    {SendDataBody, CallbackBody, ApplicationCommandBody, ValueUpdatedBody, ValueAddedBody,
     InterviewBody, QueuesBusyBody, BareRequestBody, IndentedRequestBody,
     IndentedCallbackBody}

\* a record written at time: the timestamp and the body
RecordAt(body, time) == TimestampAt(time) \o " " \o JoinNL(body)

\* a log of one record a second
LogText(bodies) == JoinNL([i \in 1..Len(bodies) |-> RecordAt(bodies[i], (i - 1) * 1000)])

\* the logs given to the pipeline: with and without a newline after the last
\* line
LogTexts ==
    {LogText(bodies) \o end : bodies \in UNION {[1..n -> Bodies] : n \in 1..MaxRecords},
                               end \in {"", NL}}

\* the rest of the state
exceptStages == <<splitVars, detectVars, aggregateVars, engineVars, serverVars>>

\* UnformatLogEntry is handed the next record of the splitter
UnformatTransform ==
    /\ consumed < Len(enqueued)
    /\ parseQueue = <<>>
    /\ consumed' = consumed + 1
    /\ parseQueue' = UnformatLogEntry(enqueued[consumed + 1])
    /\ UNCHANGED <<filterQueue, classifyQueue, detectQueue, classifyIn, classifyOut>>
    /\ UNCHANGED exceptStages

ParseTransform ==
    /\ parseQueue # <<>>
    /\ filterQueue = <<>>
    /\ parseQueue' = Tail(parseQueue)
    /\ filterQueue' = <<ParseNestedStructures(Head(parseQueue))>>
    /\ UNCHANGED <<consumed, classifyQueue, detectQueue, classifyIn, classifyOut>>
    /\ UNCHANGED exceptStages

FilterTransform ==
    /\ filterQueue # <<>>
    /\ classifyQueue = <<>>
    /\ filterQueue' = Tail(filterQueue)
    /\ classifyQueue' = FilterLogEntries(Head(filterQueue))
    /\ UNCHANGED <<consumed, parseQueue, detectQueue, classifyIn, classifyOut>>
    /\ UNCHANGED exceptStages

ClassifyTransform ==
    /\ classifyQueue # <<>>
    /\ detectQueue = <<>>
    /\ classifyQueue' = Tail(classifyQueue)
    /\ detectQueue' = ClassifyLogEntry(Head(classifyQueue))
    /\ classifyIn' = Append(classifyIn, Head(classifyQueue))
    /\ classifyOut' = Append(classifyOut, ClassifyLogEntry(Head(classifyQueue)))
    /\ UNCHANGED <<consumed, parseQueue, filterQueue>>
    /\ UNCHANGED exceptStages

\* the merger is handed the next event of the classifier
PipeDetectTransform ==
    /\ detectQueue # <<>>
    /\ rssiQueue = <<>>
    /\ DetectChunk(Head(detectQueue))
    /\ detectQueue' = Tail(detectQueue)
    /\ UNCHANGED <<consumed, parseQueue, filterQueue, classifyQueue, classifyIn, classifyOut>>
    /\ UNCHANGED <<aggregated, bufferedRSSIEntries, aggregateClosed, entries,
                   splitVars, engineVars, serverVars>>

\* the end of the input reaches the merger when the stages before it have
\* passed on all they were given
PipeDetectFlush ==
    /\ closed
    /\ consumed = Len(enqueued)
    /\ parseQueue = <<>> /\ filterQueue = <<>> /\ classifyQueue = <<>> /\ detectQueue = <<>>
    /\ rssiQueue = <<>>
    /\ DetectEnd
    /\ UNCHANGED <<aggregated, bufferedRSSIEntries, aggregateClosed, entries,
                   splitVars, stageVars, engineVars, serverVars>>

\* new LogQueryEngine(transformedEntries)
Construct ==
    /\ queryEngine = <<>>
    /\ queryEngine' = <<LogQueryEngine(entries)>>
    /\ UNCHANGED <<result, summary>>

\* what a query leaves in result
Answer(query, args, value) == <<[query |-> query, args |-> args, value |-> value]>>

\* the first two results of getLogSummary()
Summaries(value) == IF Len(summary) < 2 THEN Append(summary, value) ELSE summary

GetLogSummary ==
    /\ queryEngine # <<>>
    /\ result' = Answer("getLogSummary", <<>>, getLogSummary(queryEngine[1]))
    /\ summary' = Summaries(getLogSummary(queryEngine[1]))
    /\ UNCHANGED queryEngine

GetNodeSummary(args) ==
    /\ queryEngine # <<>>
    /\ result' = Answer("getNodeSummary", args, getNodeSummary(queryEngine[1], args))
    /\ UNCHANGED <<queryEngine, summary>>

GetNodeCommunication(args) ==
    /\ queryEngine # <<>>
    /\ result' = Answer("getNodeCommunication", args, getNodeCommunication(queryEngine[1], args))
    /\ UNCHANGED <<queryEngine, summary>>

SearchLogEntries(args) ==
    /\ queryEngine # <<>>
    /\ result' = Answer("searchLogEntries", args, searchLogEntries(queryEngine[1], args))
    /\ UNCHANGED <<queryEngine, summary>>

GetEventsAroundTimestamp(args) ==
    /\ queryEngine # <<>>
    /\ result' = Answer("getEventsAroundTimestamp", args,
                        getEventsAroundTimestamp(queryEngine[1], args))
    /\ UNCHANGED <<queryEngine, summary>>

GetBackgroundRSSIBefore(args) ==
    /\ queryEngine # <<>>
    /\ result' = Answer("getBackgroundRSSIBefore", args,
                        getBackgroundRSSIBefore(queryEngine[1], args))
    /\ UNCHANGED <<queryEngine, summary>>

\* an engine whose getLogChunk removes the entries it returns
GetLogChunk_Splice(args) ==
    /\ queryEngine # <<>>
    /\ result' = Answer("getLogChunk", args, getLogChunk(queryEngine[1], args))
    /\ queryEngine' = <<LogQueryEngine(
                          Slice(queryEngine[1].entries, 0, Max(args.startIndex, 0))
                              \o SliceFrom(queryEngine[1].entries,
                                           Max(args.startIndex, 0) + args.count))>>
    /\ UNCHANGED summary

GetLogChunk(args) ==
    /\ queryEngine # <<>>
    /\ result' = Answer("getLogChunk", args, getLogChunk(queryEngine[1], args))
    /\ UNCHANGED <<queryEngine, summary>>

\* the engine is built when the pipeline has delivered its result
PipeConstruct ==
    /\ aggregateClosed
    /\ Construct
    /\ UNCHANGED <<splitVars, stageVars, detectVars, aggregateVars, serverVars>>

PipeGetNodeCommunication ==
    /\ result = <<>>
    /\ GetNodeCommunication([nodeId |-> 5])
    /\ UNCHANGED <<splitVars, stageVars, detectVars, aggregateVars, serverVars>>

PipelineInit ==
    /\ content \in LogTexts
    /\ pos = 0
    /\ receiveBuffer = ""
    /\ lines = <<>>
    /\ enqueued = <<>>
    /\ transformCount = 0
    /\ closed = FALSE
    /\ StagesIdle
    /\ DetectIdle
    /\ AggregateIdle
    /\ EngineIdle

PipelineNext ==
    \/ pos = 0 /\ SplitTransform(Len(content))
    \/ SplitFlush
    \/ UnformatTransform
    \/ ParseTransform
    \/ FilterTransform
    \/ ClassifyTransform
    \/ PipeDetectTransform
    \/ PipeDetectFlush
    \/ AggregateTransform
    \/ AggregateFlush
    \/ PipeConstruct
    \/ PipeGetNodeCommunication

PipelineSpec == PipelineInit /\ [][PipelineNext]_vars

(***************************************************************************)
(* Claims about the pipeline                                               *)
(***************************************************************************)
\* C6: ClassifyLogEntry enqueues exactly one event for every record it is
\* given, and the events leave it in the order of the records; an event of
\* kind OTHER is the record it was made from with the field kind added and
\* every field of the record unchanged.
C6_OneEventPerRecord ==
    /\ Len(classifyOut) = Len(classifyIn)
    /\ Flatten(classifyOut) = written \o detectQueue
    /\ \A i \in 1..Len(classifyIn) :
          /\ Len(classifyOut[i]) = 1
          /\ classifyOut[i][1].timestamp = classifyIn[i].timestamp
          /\ classifyOut[i][1].kind = "OTHER" =>
                /\ DOMAIN classifyOut[i][1] = DOMAIN classifyIn[i] \cup {"kind"}
                /\ \A k \in DOMAIN classifyIn[i] : classifyOut[i][1][k] = classifyIn[i][k]

\* a value record no value pattern matches has become OTHER, before a record
\* that matched a pattern, and both have left the classifier
C6_Witness ==
    /\ Len(classifyIn) = 2
    /\ classifyOut[1][1].kind = "OTHER"
    /\ HasKey(classifyIn[1], "primaryTags")
    /\ classifyOut[2][1].kind = "SEND_DATA_REQUEST"
    /\ written = Flatten(classifyOut)

\* the log of the end-to-end example
ExampleLog ==
    "2024-01-01 00:00:00.000 DRIVER » [Node 5] [REQ] [SendData]\n"
        \o "  callback id: 7\n"
        \o "  transmit options: ACK\n"
        \o "2024-01-01 00:00:01.000 DRIVER « [REQ] [SendData]\n"
        \o "  callback id: 7\n"
        \o "  transmit status: OK"

IsExampleRequest(e) ==
    /\ e.kind = "SEND_DATA_REQUEST"
    /\ e.nodeId = 5
    /\ CallbackIdOf(e) = <<[num |-> 7]>>

IsExampleCallback(e) ==
    /\ e.kind = "SEND_DATA_CALLBACK"
    /\ CallbackIdOf(e) = <<[num |-> 7]>>
    /\ Get(e.attributes, "transmit status") = <<[str |-> "OK"]>>

\* C4: the pipeline turns the example log into one SEND_DATA_REQUEST (node
\* 5, callback id 7) and one SEND_DATA_CALLBACK (callback id 7, transmit
\* status "OK"), and getNodeCommunication({nodeId: 5}) on the result returns
\* one outgoing event with transmitStatus "OK".
C4_ExampleTransmitStatus ==
    (content = ExampleLog /\ result # <<>>) =>
        /\ Len(SelectSeq(entries, IsExampleRequest)) = 1
        /\ Len(SelectSeq(entries, IsExampleCallback)) = 1
        /\ Len(result[1].value.events) = 1
        /\ result[1].value.events[1].direction = "outgoing"
        /\ HasKey(result[1].value.events[1], "transmitStatus")
        /\ result[1].value.events[1].transmitStatus = "OK"

(***************************************************************************)
(* The query engine on its own: built from a result of the pipeline and    *)
(* then asked any queries in any order                                     *)
(***************************************************************************)
\* entries of the result the engine is built from
MaxEntries == 2

\* the event the stages up to the classifier make of a record
EventOf(body, time) ==
    ClassifyLogEntry(FilterLogEntries(ParseNestedStructures(
        UnformatLogEntry(RecordAt(body, time))[1]))[1])[1]

\* the events of a result: those of the sample records, and a background
\* RSSI reading as the merger makes it
SampleEvents(time) ==
    {EventOf(body, time) : body \in {SendDataBody, CallbackBody, ApplicationCommandBody,
                                     ValueUpdatedBody}}
        \cup {MergedEntry(GetBackgroundRSSIRequest(TimestampAt(time)), SampleAttributes)}

\* the i-th entry is a second younger than the one before it; the first is
\* written a minute after midnight
EntryTime(i) == 60000 + (i - 1) * 1000

RECURSIVE ResultsOfLength(_)
ResultsOfLength(n) ==
    IF n = 0 THEN {<<>>}
    ELSE {Append(es, e) : es \in ResultsOfLength(n - 1), e \in SampleEvents(EntryTime(n))}

SampleEntries == UNION {ResultsOfLength(n) : n \in 0..MaxEntries}

\* the arguments of the queries
FirstSecond == [start |-> TimestampAt(EntryTime(1)), end |-> TimestampAt(EntryTime(1) + 999)]

NodeSummaryArgs == {[nodeId |-> 5], [nodeId |-> 5, timeRange |-> FirstSecond]}

NodeCommunicationArgs ==
    {[nodeId |-> 5], [nodeId |-> 5, direction |-> "incoming", limit |-> 1, offset |-> 1]}

\* searches that give no filter a usable value, and searches by text, by
\* kind, by time and by attribute
SearchArgs ==
    {<<>>,
     [query |-> "  ", entryKinds |-> <<>>, attributeFilters |-> <<>>,
      timeRange |-> [start |-> TimestampAt(EntryTime(1)), end |-> ""]],
     [query |-> "/OK|ack/g", limit |-> 1],
     [entryKinds |-> <<"SEND_DATA">>, timeRange |-> FirstSecond,
      attributeFilters |-> <<[path |-> "callbackId", operator |-> "eq",
                              value |-> [num |-> 7]]>>]}

AroundTimestampArgs ==
    {[timestamp |-> TimestampAt(EntryTime(2)), beforeSeconds |-> 1, afterSeconds |-> 0]}

BackgroundRSSIArgs ==
    {[timestamp |-> TimestampAt(EntryTime(3))],
     [timestamp |-> TimestampAt(EntryTime(3)), maxAge |-> 1, channel |-> 0]}

\* chunks that start inside and past the entries, and end before, at and
\* past their end
MaxCount == 3

LogChunkArgs == {[startIndex |-> s, count |-> c] : s \in 0..MaxEntries, c \in 1..MaxCount}

\* the rest of the state
exceptEngine == <<splitVars, stageVars, detectVars, aggregateVars, serverVars>>

EngineConstruct == Construct /\ UNCHANGED exceptEngine

QueryLogSummary == GetLogSummary /\ UNCHANGED exceptEngine

QueryNodeSummary == \E args \in NodeSummaryArgs : GetNodeSummary(args) /\ UNCHANGED exceptEngine

QueryNodeCommunication ==
    \E args \in NodeCommunicationArgs : GetNodeCommunication(args) /\ UNCHANGED exceptEngine

QuerySearch == \E args \in SearchArgs : SearchLogEntries(args) /\ UNCHANGED exceptEngine

QueryAroundTimestamp ==
    \E args \in AroundTimestampArgs : GetEventsAroundTimestamp(args) /\ UNCHANGED exceptEngine

QueryBackgroundRSSI ==
    \E args \in BackgroundRSSIArgs : GetBackgroundRSSIBefore(args) /\ UNCHANGED exceptEngine

QueryLogChunk == \E args \in LogChunkArgs : GetLogChunk(args) /\ UNCHANGED exceptEngine

EngineInit ==
    /\ SplitIdle /\ StagesIdle /\ DetectIdle /\ EngineIdle
    /\ rssiQueue = <<>> /\ aggregated = <<>> /\ bufferedRSSIEntries = <<>>
    /\ aggregateClosed = FALSE
    /\ entries \in SampleEntries

EngineNext ==
    \/ EngineConstruct
    \/ QueryLogSummary
    \/ QueryNodeSummary
    \/ QueryNodeCommunication
    \/ QuerySearch
    \/ QueryAroundTimestamp
    \/ QueryBackgroundRSSI
    \/ QueryLogChunk

EngineSpec == EngineInit /\ [][EngineNext]_vars

(***************************************************************************)
(* Claims about the query engine                                           *)
(***************************************************************************)
\* C3: when the engine's entries hold a SEND_DATA_REQUEST for node 5 and,
\* later, a SEND_DATA_CALLBACK of the same callback id whose attributes hold
\* "transmit status", getNodeCommunication({nodeId: 5}) returns exactly one
\* outgoing event for that request, and its transmitStatus is the text of
\* that attribute.
C3_TransmitStatusPopulated ==
    (result # <<>> /\ result[1].query = "getNodeCommunication"
                   /\ result[1].args = [nodeId |-> 5]) =>
        \A i \in 1..Len(entries) : \A j \in (i + 1)..Len(entries) :
            ( /\ entries[i].kind = "SEND_DATA_REQUEST"
              /\ entries[i].nodeId = 5
              /\ entries[j].kind = "SEND_DATA_CALLBACK"
              /\ CallbackIdOf(entries[j]) = CallbackIdOf(entries[i])
              /\ In("transmit status", entries[j].attributes) )
            => LET outgoing == SelectSeq(result[1].value.events, LAMBDA e :
                                   e.direction = "outgoing"
                                       /\ e.timestamp = entries[i].timestamp)
               IN  /\ Len(outgoing) = 1
                   /\ HasKey(outgoing[1], "transmitStatus")
                   /\ outgoing[1].transmitStatus
                          = StringOf(Get(entries[j].attributes, "transmit status")[1])

\* what a query returns when it is the only one an engine built from the
\* entries is ever asked
RunAlone(query, args) ==
    LET alone == LogQueryEngine(entries)
    IN  CASE query = "getLogSummary" -> getLogSummary(alone)
          [] query = "getNodeSummary" -> getNodeSummary(alone, args)
          [] query = "getNodeCommunication" -> getNodeCommunication(alone, args)
          [] query = "searchLogEntries" -> searchLogEntries(alone, args)
          [] query = "getEventsAroundTimestamp" -> getEventsAroundTimestamp(alone, args)
          [] query = "getBackgroundRSSIBefore" -> getBackgroundRSSIBefore(alone, args)
          [] query = "getLogChunk" -> getLogChunk(alone, args)

\* C10: whatever queries have run, the engine's entries and indexes are
\* those it was built with, the last query has returned what it returns when
\* run alone, and two calls of getLogSummary have returned the same.
C10_QueriesReadOnly ==
    /\ queryEngine # <<>> => queryEngine = <<LogQueryEngine(entries)>>
    /\ result # <<>> => result[1].value = RunAlone(result[1].query, result[1].args)
    /\ Len(summary) = 2 => summary[1] = summary[2]

\* getLogSummary has run twice on an engine of two entries, and a query run
\* after it has returned the first of them
C10_Witness ==
    /\ Len(entries) = 2
    /\ Len(summary) = 2
    /\ summary[1].totalEntries = 2
    /\ result[1].query = "getLogChunk"
    /\ result[1].value.entries = <<entries[1]>>
    /\ result[1].value.hasMore

\* the last query and what it was asked and has returned
Asked(query) == result # <<>> /\ result[1].query = query

\* C11: on an engine of T entries, getLogChunk(startIndex, count) with
\* startIndex >= T returns no entries and hasMore false; with
\* 0 <= startIndex < T and count >= 1 it returns the entries at positions
\* startIndex .. min(startIndex + count, T) - 1 in order, and hasMore is
\* true exactly when startIndex + count < T.
C11_LogChunk ==
    Asked("getLogChunk") =>
        LET startIndex == result[1].args.startIndex
            count      == result[1].args.count
            T          == Len(queryEngine[1].entries)
            last       == Min(startIndex + count, T) - 1
        IN  /\ startIndex >= T =>
                /\ result[1].value.entries = <<>>
                /\ ~result[1].value.hasMore
            /\ (0 <= startIndex /\ startIndex < T /\ count >= 1) =>
                /\ result[1].value.entries
                       = [i \in 1..(last - startIndex + 1) |->
                              queryEngine[1].entries[startIndex + i]]
                /\ result[1].value.hasMore <=> (startIndex + count < T)

\* a chunk asked for past the end of two entries has returned the last of
\* them and no more
C11_Witness ==
    /\ Asked("getLogChunk")
    /\ Len(queryEngine[1].entries) = 2
    /\ result[1].args = [startIndex |-> 1, count |-> 3]
    /\ result[1].value.entries = <<entries[2]>>
    /\ ~result[1].value.hasMore

\* a text with a character that is not whitespace
NonBlank(text) == \E i \in 1..Len(text) : ~IsWhitespace(CharAt(text, i))

\* args gives searchLogEntries something to filter by
UsableFilter(args) ==
    \/ HasKey(args, "query") /\ NonBlank(args.query)
    \/ HasKey(args, "entryKinds") /\ args.entryKinds # <<>>
    \/ HasKey(args, "timeRange") /\ args.timeRange.start # "" /\ args.timeRange.end # ""
    \/ HasKey(args, "attributeFilters") /\ args.attributeFilters # <<>>

\* C12: searchLogEntries with no non-blank query, no entry kinds, no
\* complete time range and no attribute filters returns, whatever the engine
\* holds, no matches, totalMatches 0, hasMore false and a non-empty error;
\* with a usable filter its result has no error.
C12_SearchWithoutFilter ==
    Asked("searchLogEntries") =>
        IF UsableFilter(result[1].args)
        THEN ~HasKey(result[1].value, "error")
        ELSE /\ result[1].value.matches = <<>>
             /\ result[1].value.totalMatches = 0
             /\ ~result[1].value.hasMore
             /\ HasKey(result[1].value, "error")
             /\ result[1].value.error # ""

\* a search with a blank query, no kinds, a time range without its end and
\* no attribute filters has returned its error from an engine of two entries
C12_Witness ==
    /\ Asked("searchLogEntries")
    /\ Len(queryEngine[1].entries) = 2
    /\ HasKey(result[1].args, "query")
    /\ result[1].args.query = "  "
    /\ HasKey(result[1].args, "timeRange")
    /\ HasKey(result[1].value, "error")
    /\ result[1].value.matches = <<>>

(***************************************************************************)
(* Looking up background RSSI: an engine built from a result with single   *)
(* and summarised readings is asked for the reading before a time          *)
(***************************************************************************)
\* entries of the result the readings are looked up in
MaxLookupEntries == 3

\* the greatest maxAge asked for, in seconds
MaxAge == 2

\* the summary the aggregator makes of three readings that start at time
SummaryAt(time) ==
    aggregateRSSIEntries(<<BackgroundRSSI(TimestampAt(time), "-95 dBm", ""),
                           BackgroundRSSI(TimestampAt(time + 100), "-90 dBm", ""),
                           BackgroundRSSI(TimestampAt(time + 200), "-85 dBm", "")>>)

\* an event that is no reading, a reading of channels 0 and 1, a reading of
\* channels 0 to 2, and a summary of channels 0 and 1
LookupEvents(time) ==
    {OtherEvent(TimestampAt(time)),
     BackgroundRSSI(TimestampAt(time), "-90 dBm", ""),
     BackgroundRSSI(TimestampAt(time), "-90 dBm", "-80 dBm"),
     SummaryAt(time)}

RECURSIVE LookupsOfLength(_)
LookupsOfLength(n) ==
    IF n = 0 THEN {<<>>}
    ELSE {Append(es, e) : es \in LookupsOfLength(n - 1), e \in LookupEvents(EntryTime(n))}

LookupEntries == UNION {LookupsOfLength(n) : n \in 0..MaxLookupEntries}

\* the times asked about: that of the first entry, half a second after the
\* second, and a second after the last
LookupTimes == {EntryTime(1), EntryTime(2) + 500, EntryTime(MaxLookupEntries + 1)}

LookupArgs ==
    {[timestamp |-> TimestampAt(time)] @@ age @@ channel :
        time \in LookupTimes,
        age \in {<<>>} \cup {[maxAge |-> seconds] : seconds \in 0..MaxAge},
        channel \in {<<>>} \cup {[channel |-> c] : c \in {0, 2}}}

LookupRSSI == \E args \in LookupArgs : GetBackgroundRSSIBefore(args) /\ UNCHANGED exceptEngine

LookupInit ==
    /\ SplitIdle /\ StagesIdle /\ DetectIdle /\ EngineIdle
    /\ rssiQueue = <<>> /\ aggregated = <<>> /\ bufferedRSSIEntries = <<>>
    /\ aggregateClosed = FALSE
    /\ entries \in LookupEntries

LookupNext ==
    \/ EngineConstruct
    \/ LookupRSSI

LookupSpec == LookupInit /\ [][LookupNext]_vars

\* the positions of the readings of es that lie before the time of
\* timestamp and, when maxAge is given, at most maxAge seconds before it
ReadingsBefore(es, args) ==
    {i \in 1..Len(es) :
        /\ es[i].kind \in {"BACKGROUND_RSSI", "BACKGROUND_RSSI_SUMMARY"}
        /\ parseTimestamp(es[i].timestamp) < parseTimestamp(args.timestamp)
        /\ HasKey(args, "maxAge") =>
               parseTimestamp(args.timestamp) - parseTimestamp(es[i].timestamp)
                   <= args.maxAge * 1000}

\* the latest of the entries of es at positions
LatestOf(es, positions) ==
    es[CHOOSE i \in positions :
           \A j \in positions :
               parseTimestamp(es[j].timestamp) <= parseTimestamp(es[i].timestamp)]

\* C13: getBackgroundRSSIBefore(timestamp, maxAge) returns undefined exactly
\* when no BACKGROUND_RSSI or BACKGROUND_RSSI_SUMMARY event lies strictly
\* before timestamp and, when maxAge is given (0 included), at most maxAge
\* seconds before it; otherwise it returns the reading of the latest such
\* event, as a scan of all the events finds it.
C13_MostRecentReading ==
    Asked("getBackgroundRSSIBefore") =>
        IF ReadingsBefore(queryEngine[1].entries, result[1].args) = {}
        THEN result[1].value = <<>>
        ELSE /\ result[1].value # <<>>
             /\ result[1].value[1].timestamp
                    = LatestOf(queryEngine[1].entries,
                               ReadingsBefore(queryEngine[1].entries, result[1].args)).timestamp

\* the key of the channel args asks for
ChannelKey(args) == "channel " \o NumberText(args.channel)

\* the positions of the readings before the time asked about that hold the
\* channel asked for
ChannelReadingsBefore(es, args) ==
    {i \in ReadingsBefore(es, args) : HasKey(es[i], ChannelKey(args))}

\* C14: getBackgroundRSSIBefore with a channel returns the reading of the
\* nearest preceding RSSI event (within maxAge) that holds that channel, and
\* undefined when no preceding event holds it; the channels of a reading it
\* returns always include the channel asked for.
C14_ChannelReading ==
    (Asked("getBackgroundRSSIBefore") /\ HasKey(result[1].args, "channel")) =>
        IF ChannelReadingsBefore(queryEngine[1].entries, result[1].args) = {}
        THEN result[1].value = <<>>
        ELSE /\ result[1].value # <<>>
             /\ result[1].value[1].timestamp
                    = LatestOf(queryEngine[1].entries,
                               ChannelReadingsBefore(queryEngine[1].entries,
                                                     result[1].args)).timestamp
             /\ HasKey(result[1].value[1].channels, ChannelKey(result[1].args))

(***************************************************************************)
(* The events around a time: the merger and the aggregator fill the result *)
(* array, the engine is built from it and asked for the events in a window *)
(***************************************************************************)
\* windows that start at the time of the first, second or third event and
\* are closed at once or a second later, with and without a kind
WindowArgs ==
    {[timestamp |-> TimestampAt(time), beforeSeconds |-> 0, afterSeconds |-> after] @@ kinds :
        time \in {0, 100, 200},
        after \in {0, 1},
        kinds \in {<<>>, [entryKinds |-> <<"RSSI">>]}}

\* the engine is asked once
WindowQuery ==
    \E args \in WindowArgs :
        /\ result = <<>>
        /\ GetEventsAroundTimestamp(args)
        /\ UNCHANGED <<splitVars, stageVars, detectVars, aggregateVars, serverVars>>

WindowNext ==
    \/ \E ts \in NextTimestamps(written, Gaps) : \E chunk \in ClassifiedEvents(ts) :
           DetectTransform(chunk)
    \/ DetectFlush
    \/ AggregateTransform
    \/ AggregateFlush
    \/ PipeConstruct
    \/ WindowQuery

WindowSpec == RssiInit /\ [][WindowNext]_vars

\* args[key], or the default when args has no such key
ArgOr(args, key, default) == IF HasKey(args, key) THEN args[key] ELSE default

\* the events of es in the closed window of args whose kind is among the
\* kinds of args, when it gives any
EventsInWindow(es, args) ==
    SelectSeq(es, LAMBDA e :
        /\ parseTimestamp(e.timestamp)
               >= parseTimestamp(args.timestamp) - ArgOr(args, "beforeSeconds", 30) * 1000
        /\ parseTimestamp(e.timestamp)
               <= parseTimestamp(args.timestamp) + ArgOr(args, "afterSeconds", 30) * 1000
        /\ ArgOr(args, "entryKinds", <<>>) # <<>> =>
               \E n \in 1..Len(args.entryKinds) : Includes(e.kind, args.entryKinds[n]))

\* C15: on an engine built from a result of the pipeline,
\* getEventsAroundTimestamp(t, beforeSeconds, afterSeconds, kinds) counts
\* and returns, in their order, exactly the events whose time lies in
\* [t - beforeSeconds, t + afterSeconds] and whose kind contains one of the
\* kinds asked for, when any is.
C15_WindowExact ==
    Asked("getEventsAroundTimestamp") =>
        /\ result[1].value.totalCount
               = Len(EventsInWindow(queryEngine[1].entries, result[1].args))
        /\ result[1].value.events
               = Slice(EventsInWindow(queryEngine[1].entries, result[1].args),
                       ArgOr(result[1].args, "offset", 0),
                       ArgOr(result[1].args, "offset", 0) + ArgOr(result[1].args, "limit", 100))

(***************************************************************************)
(* Paging: the three paged queries are asked for pages of every size at    *)
(* every offset                                                            *)
(***************************************************************************)
\* the greatest limit asked for
MaxLimit == 2

\* limits from 1 and offsets from 0 to past the last result
Pages == {[limit |-> l, offset |-> o] : l \in 1..MaxLimit, o \in 0..(MaxEntries + 1)}

\* every entry of the samples holds the year and lies in the half minute
\* after the first
PagedCommunicationArgs == {[nodeId |-> 5] @@ page : page \in Pages}

PagedSearchArgs == {[query |-> "2024"] @@ page : page \in Pages}

PagedAroundArgs ==
    {[timestamp |-> TimestampAt(EntryTime(1)), beforeSeconds |-> 0] @@ page : page \in Pages}

PageCommunication ==
    \E args \in PagedCommunicationArgs : GetNodeCommunication(args) /\ UNCHANGED exceptEngine

PageSearch == \E args \in PagedSearchArgs : SearchLogEntries(args) /\ UNCHANGED exceptEngine

PageAround ==
    \E args \in PagedAroundArgs : GetEventsAroundTimestamp(args) /\ UNCHANGED exceptEngine

PagingNext ==
    \/ EngineConstruct
    \/ PageCommunication
    \/ PageSearch
    \/ PageAround

PagingSpec == EngineInit /\ [][PagingNext]_vars

PagedQueries == {"getNodeCommunication", "getEventsAroundTimestamp", "searchLogEntries"}

\* the results a paged query's value holds, and their reported total
ItemsOf(query, value) == IF query = "searchLogEntries" THEN value.matches ELSE value.events

TotalOf(query, value) ==
    IF query = "searchLogEntries" THEN value.totalMatches ELSE value.totalCount

\* args asking for the page of limit results at offset
PageOf(args, limit, offset) ==
    [limit |-> limit, offset |-> offset]
        @@ [key \in DOMAIN args \ {"limit", "offset"} |-> args[key]]

\* the full result of the query of args: its page at offset 0 of a limit no
\* result reaches
FullResult(query, args) ==
    ItemsOf(query, RunAlone(query, PageOf(args, MaxEntries + MaxLimit + 1, 0)))

\* the results of the pages fetched at offset, offset + limit, ... until
\* hasMore is false
RECURSIVE FetchedFrom(_, _, _, _)
FetchedFrom(query, args, limit, offset) ==
    LET page == RunAlone(query, PageOf(args, limit, offset))
    IN  ItemsOf(query, page)
            \o (IF page.hasMore THEN FetchedFrom(query, args, limit, offset + limit) ELSE <<>>)

\* C16: getNodeCommunication, getEventsAroundTimestamp and searchLogEntries
\* with limit L >= 1 and offset O >= 0 return elements O .. min(O + L, T) - 1
\* of their full result of size T, report the total T, and hasMore exactly
\* when O + L < T; the pages at offsets 0, L, 2L, ... up to the first
\* without hasMore are, one after the other, the full result.
C16_Pagination ==
    (result # <<>> /\ result[1].query \in PagedQueries
        /\ HasKey(result[1].args, "limit") /\ HasKey(result[1].args, "offset")) =>
        LET query == result[1].query
            L     == result[1].args.limit
            O     == result[1].args.offset
            full  == FullResult(query, result[1].args)
            T     == Len(full)
        IN  /\ ItemsOf(query, result[1].value) = SubSeq(full, O + 1, Min(O + L, T))
            /\ TotalOf(query, result[1].value) = T
            /\ result[1].value.hasMore <=> (O + L < T)
            /\ FetchedFrom(query, result[1].args, L, 0) = full

\* the second page of one result has been returned out of a full result of
\* two
C16_Witness ==
    /\ result # <<>>
    /\ result[1].query \in PagedQueries
    /\ result[1].args.limit = 1
    /\ result[1].args.offset = 1
    /\ TotalOf(result[1].query, result[1].value) = 2
    /\ ItemsOf(result[1].query, result[1].value)
           = <<FullResult(result[1].query, result[1].args)[2]>>
    /\ ~result[1].value.hasMore

(***************************************************************************)
(* Searching: an engine built from the sample entries is searched by       *)
(* attribute, by text, by kind and by time                                 *)
(***************************************************************************)
\* one filter on a field of the event, on an attribute of the event by its
\* name and by its path, on an attribute of the payload, and on the
\* payload's message
PathFilters ==
    {[path |-> "callbackId", operator |-> "eq", value |-> [num |-> 7]],
     [path |-> "transmit status", operator |-> "eq", value |-> [str |-> "OK"]],
     [path |-> "attributes.transmit status", operator |-> "eq", value |-> [str |-> "OK"]],
     [path |-> "payload.attributes.target value", operator |-> "eq", value |-> [num |-> 255]],
     [path |-> "payload.message", operator |-> "match", value |-> [str |-> "basic"]]}

SecondSecond == [start |-> TimestampAt(EntryTime(2)), end |-> TimestampAt(EntryTime(2))]

FilterArgs ==
    {[attributeFilters |-> <<filter>>] : filter \in PathFilters}
        \cup {[query |-> query] : query \in {"ack", "/ack/g", "/ack|basic/"}}
        \cup {[entryKinds |-> <<"CALLBACK", "RSSI">>],
              [timeRange |-> SecondSecond],
              [query |-> "basic", entryKinds |-> <<"SEND_DATA">>, timeRange |-> FirstSecond,
               attributeFilters |-> <<[path |-> "callbackId", operator |-> "gte",
                                       value |-> [num |-> 7]],
                                      [path |-> "nodeId", operator |-> "ne",
                                       value |-> [num |-> 6]]>>]}

FilterSearch == \E args \in FilterArgs : SearchLogEntries(args) /\ UNCHANGED exceptEngine

FilterNext ==
    \/ EngineConstruct
    \/ FilterSearch

FilterSpec == EngineInit /\ [][FilterNext]_vars

\* the value at the path followed segment by segment from the event, and
\* for a path of one segment without such a value the event's attribute of
\* that name
LiteralThenAttributes(entry, path) ==
    IF FollowPath(<<[entry |-> entry]>>, Split(path, ".")) # <<>>
    THEN FollowPath(<<[entry |-> entry]>>, Split(path, "."))
    ELSE IF Len(Split(path, ".")) = 1 /\ HasKey(entry, "attributes")
    THEN Get(entry.attributes, path)
    ELSE <<>>

\* a search by attribute filters alone
ByAttributesOnly(args) == DOMAIN args = {"attributeFilters"} /\ args.attributeFilters # <<>>

\* C17: an attribute filter compares the value its path leads to when it is
\* followed literally, segment by segment, from the event
\* ("payload.attributes.x" is event.payload.attributes.x), and only for a
\* path of one segment that leads to no value the event's attribute of that
\* name: a search by attribute filters returns the events whose values, so
\* found, pass the filters.
C17_LiteralPath ==
    (Asked("searchLogEntries") /\ ByAttributesOnly(result[1].args)) =>
        result[1].value.matches
            = SelectSeq(queryEngine[1].entries, LAMBDA entry :
                  \A n \in 1..Len(result[1].args.attributeFilters) :
                      FilterActual(result[1].args.attributeFilters[n],
                                   LiteralThenAttributes(entry,
                                       result[1].args.attributeFilters[n].path)))

\* the event, taken alone, is found by the query
FoundAlone(entry, query) == search(TextSearchIndex(<<entry>>).contentMap, query) # <<>>

\* the event passes every filter args supplies
PassesAll(entry, args) ==
    /\ (HasKey(args, "query") /\ NonBlank(args.query)) => FoundAlone(entry, args.query)
    /\ (HasKey(args, "entryKinds") /\ args.entryKinds # <<>>) =>
           \E n \in 1..Len(args.entryKinds) : Includes(entry.kind, args.entryKinds[n])
    /\ (HasKey(args, "timeRange") /\ args.timeRange.start # "" /\ args.timeRange.end # "") =>
           /\ parseTimestamp(args.timeRange.start) <= parseTimestamp(entry.timestamp)
           /\ parseTimestamp(entry.timestamp) <= parseTimestamp(args.timeRange.end)
    /\ (HasKey(args, "attributeFilters") /\ args.attributeFilters # <<>>) =>
           \A n \in 1..Len(args.attributeFilters) :
               applyAttributeFilter(entry, args.attributeFilters[n])

\* C18: a searchLogEntries call with a usable filter matches, before
\* pagination, exactly the events, in their order, that pass every filter it
\* supplies: the text query, the kinds, the inclusive time range and each
\* attribute filter; a filter it omits excludes nothing.
C18_AllFiltersApply ==
    (Asked("searchLogEntries") /\ UsableFilter(result[1].args)
        /\ ~HasKey(result[1].args, "limit") /\ ~HasKey(result[1].args, "offset")) =>
        /\ result[1].value.matches
               = SelectSeq(queryEngine[1].entries,
                           LAMBDA entry : PassesAll(entry, result[1].args))
        /\ result[1].value.totalMatches = Len(result[1].value.matches)

(***************************************************************************)
(* LogTransformPipeline.processLogContent (index.ts:1034-1074) as a        *)
(* function of the log: the whole text is enqueued as one chunk, the       *)
(* stream is closed, and every stage passes on what it enqueues            *)
(***************************************************************************)
\* the records the splitter enqueues for one transform() of the whole text
\* followed by flush()
SplitRecords(buffer, newLines) ==
    LET ls   == IF Len(newLines) > 1 THEN SubSeq(newLines, 1, Len(newLines) - 1) ELSE <<>>
        last == IF Len(newLines) > 1 THEN newLines[Len(newLines)] ELSE buffer
        rest == RemainingLines(RemainingLines(ls))
        left == IF Len(last) > 0 THEN Append(rest, last) ELSE rest
    IN  CompleteEntries(ls) \o CompleteEntries(RemainingLines(ls))
            \o (IF Len(left) > 0 THEN <<JoinNL(left)>> ELSE <<>>)

\* what a stage enqueues for the chunks it is given, one after the other
RECURSIVE Piped(_, _)
Piped(Stage(_), chunks) ==
    IF chunks = <<>> THEN <<>> ELSE Stage(Head(chunks)) \o Piped(Stage, Tail(chunks))

ParseStage(chunk) == <<ParseNestedStructures(chunk)>>

\* the merger: what it has enqueued after the chunks and its flush()
RECURSIVE MergerRun(_, _, _, _)
MergerRun(chunks, pending, buffered, out) ==
    IF chunks = <<>> THEN out \o pending \o buffered
    ELSE IF IsGetBackgroundRSSIRequest(Head(chunks))
    THEN MergerRun(Tail(chunks), <<Head(chunks)>>, <<>>, out \o pending \o buffered)
    ELSE IF pending = <<>>
    THEN MergerRun(Tail(chunks), pending, buffered, Append(out, Head(chunks)))
    ELSE IF parseTimestamp(Head(chunks).timestamp) - parseTimestamp(pending[1].timestamp) > 200
    THEN MergerRun(Tail(chunks), <<>>, <<>>, Append(out \o pending \o buffered, Head(chunks)))
    ELSE IF IsGetBackgroundRSSIResponse(Head(chunks))
    THEN MergerRun(Tail(chunks), <<>>, <<>>,
                   Append(out \o buffered,
                          MergedEntry(pending[1], Head(chunks).message.attributes)))
    ELSE MergerRun(Tail(chunks), pending, Append(buffered, Head(chunks)), out)

\* the aggregator: what it has enqueued after the chunks and its flush()
RECURSIVE AggregatorRun(_, _, _)
AggregatorRun(chunks, buffered, out) ==
    IF chunks = <<>> THEN out \o AggregateFlushOutput(buffered)
    ELSE IF Head(chunks).kind = "BACKGROUND_RSSI"
    THEN AggregatorRun(Tail(chunks), Append(buffered, Head(chunks)), out)
    ELSE AggregatorRun(Tail(chunks), <<>>,
                       Append(out \o AggregateFlushOutput(buffered), Head(chunks)))

processLogContent(logContent) ==
    AggregatorRun(
        MergerRun(
            Piped(ClassifyLogEntry,
                  Piped(FilterLogEntries,
                        Piped(ParseStage,
                              Piped(UnformatLogEntry,
                                    SplitRecords(logContent, SplitNL(logContent)))))),
            <<>>, <<>>, <<>>),
        <<>>, <<>>)

\* the result array of a finished run of the pipeline is the function's value
RunIsFunction == aggregateClosed => entries = processLogContent(content)

(***************************************************************************)
(* ZWaveLogMCPServerCore: loading logs (zwave-mcp-server-core.ts:59-72).   *)
(* A load runs up to its next await in one step; loads called while        *)
(* another is awaiting run interleaved with it.  A load of loads is        *)
(* [phase, content, settled]: phase is "reading" while readFile is         *)
(* awaited, "processing" while processLogContent is awaited, then "loaded" *)
(* or "failed"; content is <<>> until the text is known; settled is <<>>   *)
(* until the load returns or throws, and then holds the queryEngine found  *)
(* before and left after that step.                                        *)
(***************************************************************************)
\* calls of the load methods
MaxLoads == 3

\* the logs loaded: two records, one record and a final newline, no text
LoadLogs ==
    {LogText(<<SendDataBody, CallbackBody>>), LogText(<<ValueUpdatedBody>>) \o NL, ""}

Load(phase, text, settled) == [phase |-> phase, content |-> text, settled |-> settled]

\* the load returns or throws, leaving the engine after
Settled(load, phase, after) ==
    Load(phase, load.content, <<[before |-> queryEngine, after |-> after]>>)

\* loadLogFileFromPath(filePath) up to "await readFile"
LoadLogFileFromPath ==
    /\ Len(loads) < MaxLoads
    /\ loads' = Append(loads, Load("reading", <<>>, <<>>))
    /\ UNCHANGED <<queryEngine, result, summary>>

\* loadLogFileFromContent(logContent) up to "await processLogContent"
LoadLogFileFromContent(logContent) ==
    /\ Len(loads) < MaxLoads
    /\ loads' = Append(loads, Load("processing", <<logContent>>, <<>>))
    /\ UNCHANGED <<queryEngine, result, summary>>

\* readFile resolves with the text of the file: up to "await
\* processLogContent"
ReadFileResolves(i, logContent) ==
    /\ loads[i].phase = "reading"
    /\ loads' = [loads EXCEPT ![i] = Load("processing", <<logContent>>, <<>>)]
    /\ UNCHANGED <<queryEngine, result, summary>>

\* readFile rejects: the load throws
ReadFileRejects(i) ==
    /\ loads[i].phase = "reading"
    /\ loads' = [loads EXCEPT ![i] = Settled(loads[i], "failed", queryEngine)]
    /\ UNCHANGED <<queryEngine, result, summary>>

\* processLogContent resolves with the entries: the engine is built and
\* assigned, and the load returns
ProcessResolves(i) ==
    /\ loads[i].phase = "processing"
    /\ queryEngine' = <<LogQueryEngine(processLogContent(loads[i].content[1]))>>
    /\ loads' = [loads EXCEPT ![i] = Settled(loads[i], "loaded", queryEngine')]
    /\ UNCHANGED <<result, summary>>

\* a load that drops the engine when processing fails
ProcessRejects_Dropped(i) ==
    /\ loads[i].phase = "processing"
    /\ queryEngine' = <<>>
    /\ loads' = [loads EXCEPT ![i] = Settled(loads[i], "failed", queryEngine')]
    /\ UNCHANGED <<result, summary>>

\* processLogContent rejects, or the constructor of the engine throws: the
\* load throws before the assignment
ProcessRejects(i) ==
    /\ loads[i].phase = "processing"
    /\ queryEngine' = queryEngine
    /\ loads' = [loads EXCEPT ![i] = Settled(loads[i], "failed", queryEngine')]
    /\ UNCHANGED <<result, summary>>

\* the rest of the state
exceptServer == <<splitVars, stageVars, detectVars, aggregateVars, calls>>

LoadInit == SplitIdle /\ StagesIdle /\ DetectIdle /\ AggregateIdle /\ EngineIdle

LoadNext ==
    \/ LoadLogFileFromPath /\ UNCHANGED exceptServer
    \/ \E logContent \in LoadLogs : LoadLogFileFromContent(logContent) /\ UNCHANGED exceptServer
    \/ \E i \in 1..Len(loads) : \E logContent \in LoadLogs :
           ReadFileResolves(i, logContent) /\ UNCHANGED exceptServer
    \/ \E i \in 1..Len(loads) : ReadFileRejects(i) /\ UNCHANGED exceptServer
    \/ \E i \in 1..Len(loads) : ProcessResolves(i) /\ UNCHANGED exceptServer
    \/ \E i \in 1..Len(loads) : ProcessRejects(i) /\ UNCHANGED exceptServer

LoadSpec == LoadInit /\ [][LoadNext]_vars

\* engine is an engine built from the events of the log alone
BuiltFrom(engine, logContent) ==
    /\ engine.entries = processLogContent(logContent)
    /\ engine.indexes = buildIndexes(engine.entries)

\* C19: a load that fails, in reading or in processing, leaves queryEngine
\* as it found it (the engine installed before, or null); a load that
\* succeeds leaves an engine built from the events of its own log alone; and
\* at every moment queryEngine is null or the engine built from the log of
\* one load that has succeeded.
C19_LoadAllOrNothing ==
    /\ \A i \in 1..Len(loads) :
          /\ loads[i].phase = "failed" =>
                loads[i].settled[1].after = loads[i].settled[1].before
          /\ loads[i].phase = "loaded" =>
                /\ loads[i].settled[1].after # <<>>
                /\ BuiltFrom(loads[i].settled[1].after[1], loads[i].content[1])
    /\ queryEngine # <<>> =>
          \E i \in 1..Len(loads) :
              /\ loads[i].phase = "loaded"
              /\ BuiltFrom(queryEngine[1], loads[i].content[1])
    /\ queryEngine = <<>> => \A i \in 1..Len(loads) : loads[i].phase # "loaded"

\* a load of two records has succeeded while a load called before it was
\* still processing another log; that load and a third, of a file, have then
\* failed, and the engine is still that of the two records
C19_Witness ==
    /\ Len(loads) = 3
    /\ loads[1].phase = "failed" /\ loads[1].content = <<LogText(<<ValueUpdatedBody>>) \o NL>>
    /\ loads[2].phase = "loaded"
    /\ loads[3].phase = "failed" /\ loads[3].content = <<>>
    /\ loads[1].settled[1].before = loads[2].settled[1].after
    /\ loads[3].settled[1].before = loads[2].settled[1].after
    /\ Len(queryEngine[1].entries) = 2
    /\ queryEngine = loads[2].settled[1].after

(***************************************************************************)
(* The pipeline on logs with records that lack a timestamp, a label or a   *)
(* message.                                                                *)
(***************************************************************************)
\* lines of such a log
MaxUnformatLines == 3

\* the lines written at time: two records with a message, a label alone, a
\* timestamp alone, a label with spaces after it, a label with a tab and a
\* word after it, and a line without a timestamp
UnformatSampleLines(time) ==
    {RecordAt(InterviewBody, time),
     RecordAt(ValueUpdatedBody, time),
     TimestampAt(time) \o " DRIVER",
     TimestampAt(time),
     TimestampAt(time) \o " DRIVER  ",
     TimestampAt(time) \o " DRIVER\tstarted",
     "DRIVER   all queues busy"}

UnformatSampleLogs(n) ==
    {ls \in [1..n -> UNION {UnformatSampleLines((i - 1) * 1000) : i \in 1..n}] :
        \A i \in 1..n : ls[i] \in UnformatSampleLines((i - 1) * 1000)}

UnformatLogTexts ==
    {JoinNL(ls) \o end : ls \in UNION {UnformatSampleLogs(n) : n \in 1..MaxUnformatLines},
                         end \in {"", NL}}

UnformatInit ==
    /\ content \in UnformatLogTexts
    /\ pos = 0
    /\ receiveBuffer = ""
    /\ lines = <<>>
    /\ enqueued = <<>>
    /\ transformCount = 0
    /\ closed = FALSE
    /\ StagesIdle
    /\ DetectIdle
    /\ AggregateIdle
    /\ EngineIdle

UnformatSpec == UnformatInit /\ [][PipelineNext]_vars

\* what follows the timestamp on the first line of a record
AfterTimestamp(record) == SliceFrom(SplitNL(record)[1], Len(TimestampShape))

\* text holds a token: a character that is not whitespace
HasToken(text) == \E i \in 1..Len(text) : ~IsWhitespace(CharAt(text, i))

\* the first line of the record has no timestamp in front, or no token
\* after the timestamp
Malformed(record) ==
    \/ ~TIMESTAMP_REGEX(SplitNL(record)[1])
    \/ ~HasToken(AfterTimestamp(record))

\* C20: whenever UnformatLogEntry is handed a record, it emits nothing if
\* the first line of the record has no timestamp prefix or no
\* whitespace-delimited label token after the timestamp, and otherwise
\* exactly one info, which carries the timestamp of that record, whatever
\* was dropped before.
C20_MalformedDropped ==
    [][consumed' = consumed + 1 =>
          IF Malformed(enqueued[consumed + 1]) THEN parseQueue' = <<>>
          ELSE /\ Len(parseQueue') = 1
               /\ parseQueue'[1].timestamp
                      = SubSeq(enqueued[consumed + 1], 1, Len(TimestampShape))]_vars

(***************************************************************************)
(* The pipeline on logs of one command record: every label, direction,     *)
(* tag list, header and body of the samples below.                         *)
(***************************************************************************)
\* the continuation lines of a command record: none, attributes alone,
\* attributes and a nested command without and with a callback id
CommandLines ==
    {<<>>,
     <<"  callback id: 7", "  transmit options: ACK">>,
     <<"| transmit options: ACK", "+-[BasicCCSet]", "    target value: 255">>,
     <<"| transmit options: ACK", "| callback id: 7", "+-[BasicCCSet]",
       "    target value: 255">>}

CommandHeaders == {"[SendData]", "[SendDataBridge]", "[GetBackgroundRSSI]"}

\* label, direction arrow, tags and header of the first line
CommandFirstLines ==
    {label \o " " \o arrow \o " " \o node \o tag \o " " \o header :
        label \in {"DRIVER", "CNTRLR"}, arrow \in {"»", "«", " "},
        node \in {"[Node 5] ", ""}, tag \in {"[REQ]", "[RES]"}, header \in CommandHeaders}

CommandBodies ==
    {<<first>> \o Aligned("DRIVER", ls) : first \in CommandFirstLines, ls \in CommandLines}

ClassifyInit ==
    /\ content \in {LogText(<<body>>) : body \in CommandBodies}
    /\ pos = 0
    /\ receiveBuffer = ""
    /\ lines = <<>>
    /\ enqueued = <<>>
    /\ transformCount = 0
    /\ closed = FALSE
    /\ StagesIdle
    /\ DetectIdle
    /\ AggregateIdle
    /\ EngineIdle

ClassifySpec == ClassifyInit /\ [][PipelineNext]_vars

\* the body of the record is a payload node whose header starts with
\* "[SendData"
HasSendDataHeader(chunk) ==
    ~IsString(chunk.message) /\ StartsWith(chunk.message.message, "[SendData")

\* the event has the field exactly when the record has the attribute, with
\* its value
TakenFrom(event, field, chunk, key) ==
    IF In(key, chunk.message.attributes)
    THEN HasKey(event, field) /\ <<event[field]>> = Get(chunk.message.attributes, key)
    ELSE ~HasKey(event, field)

\* C21: every record given to the classifier that is outbound, tagged REQ,
\* carries a Node tag and has a payload node with a header starting with
\* "[SendData" as its body has become a SEND_DATA_REQUEST, with the nodeId of
\* the Node tag and with callbackId and transmitOptions as the attributes
\* "callback id" and "transmit options" give them (undefined when absent).
C21_SendDataRequest ==
    \A i \in 1..Len(classifyIn) :
        (/\ classifyIn[i].direction = "outbound"
         /\ HasTag(classifyIn[i], "REQ")
         /\ hasNodeIdTag(classifyIn[i])
         /\ HasSendDataHeader(classifyIn[i])) =>
            /\ classifyOut[i][1].kind = "SEND_DATA_REQUEST"
            /\ classifyOut[i][1].nodeId = 5
            /\ TakenFrom(classifyOut[i][1], "callbackId", classifyIn[i], "callback id")
            /\ TakenFrom(classifyOut[i][1], "transmitOptions", classifyIn[i],
                         "transmit options")

\* C22: an inbound DRIVER record tagged REQ whose body is a payload node
\* with a header starting with "[SendData" has become a SEND_DATA_CALLBACK,
\* and one tagged RES a SEND_DATA_RESPONSE; neither is ever a generic
\* CALLBACK or RESPONSE.
C22_SendDataBeforeGeneric ==
    \A i \in 1..Len(classifyIn) :
        (/\ classifyIn[i].label = "DRIVER"
         /\ classifyIn[i].direction = "inbound"
         /\ HasSendDataHeader(classifyIn[i])) =>
            /\ HasTag(classifyIn[i], "REQ") =>
                  classifyOut[i][1].kind = "SEND_DATA_CALLBACK"
            /\ HasTag(classifyIn[i], "RES") =>
                  classifyOut[i][1].kind = "SEND_DATA_RESPONSE"

\* an inbound SendDataBridge record of the driver, tagged REQ, with
\* attributes and no nested command, is a SEND_DATA_CALLBACK with its
\* callback id
C22_Witness ==
    /\ Len(classifyIn) = 1
    /\ classifyIn[1].label = "DRIVER" /\ classifyIn[1].direction = "inbound"
    /\ HasTag(classifyIn[1], "REQ") /\ ~HasTag(classifyIn[1], "Node 5")
    /\ ~IsString(classifyIn[1].message)
    /\ classifyIn[1].message.message = "[SendDataBridge]"
    /\ ~HasKey(classifyIn[1].message, "nested")
    /\ classifyOut[1][1].kind = "SEND_DATA_CALLBACK"
    /\ classifyOut[1][1].callbackId = [num |-> 7]

\* an inbound SendData record of the driver, tagged RES, is a
\* SEND_DATA_RESPONSE
C22_ResponseWitness ==
    /\ Len(classifyIn) = 1
    /\ classifyIn[1].label = "DRIVER" /\ classifyIn[1].direction = "inbound"
    /\ HasTag(classifyIn[1], "RES")
    /\ HasSendDataHeader(classifyIn[1])
    /\ classifyOut[1][1].kind = "SEND_DATA_RESPONSE"

(***************************************************************************)
(* getLogSummary on logs of several nodes                                  *)
(***************************************************************************)
\* entries of such a log
MaxSummaryEntries == 3

\* node ids whose order as numbers is not their order as strings
SummaryNodes == {3, 12}

\* the event of the same record with the tag Node nodeId
OfNode(event, nodeId) == [event EXCEPT !.nodeId = nodeId]

\* commands from and to the nodes, a value event of a node, and a callback,
\* which belongs to no node
SummaryEvents(time) ==
    {OfNode(EventOf(body, time), nodeId) :
        body \in {SendDataBody, ApplicationCommandBody, ValueUpdatedBody},
        nodeId \in SummaryNodes}
        \cup {EventOf(CallbackBody, time)}

RECURSIVE SummaryLogsOfLength(_)
SummaryLogsOfLength(n) ==
    IF n = 0 THEN {<<>>}
    ELSE {Append(es, e) : es \in SummaryLogsOfLength(n - 1), e \in SummaryEvents(EntryTime(n))}

SummaryInit ==
    /\ SplitIdle /\ StagesIdle /\ DetectIdle /\ EngineIdle
    /\ rssiQueue = <<>> /\ aggregated = <<>> /\ bufferedRSSIEntries = <<>>
    /\ aggregateClosed = FALSE
    /\ entries \in UNION {SummaryLogsOfLength(n) : n \in 0..MaxSummaryEntries}

\* the engine is asked once
SummaryQuery == result = <<>> /\ QueryLogSummary

SummaryNext == EngineConstruct \/ SummaryQuery

SummarySpec == SummaryInit /\ [][SummaryNext]_vars

\* the sum of count(nodeId) over the node ids listed
RECURSIVE SumOver(_, _)
SumOver(count(_), nodeIds) ==
    IF nodeIds = <<>> THEN 0 ELSE count(Head(nodeIds)) + SumOver(count, Tail(nodeIds))

\* the node ids of the node-scoped events of es
NodeIdsOf(es) == {es[i].nodeId : i \in {j \in 1..Len(es) : HasKey(es[j], "nodeId")}}

\* C23: in the result of getLogSummary, total.incoming is the number of
\* INCOMING_COMMAND events of the log and total.outgoing the number of
\* SEND_DATA_REQUEST events, total.total is their sum, the byNode counts of
\* each direction add up over the listed node ids to the aggregate count, and
\* nodeIds lists every node id of a node-scoped event once, in ascending
\* order.
C23_SummaryCounts ==
    Asked("getLogSummary") =>
        LET es       == queryEngine[1].entries
            activity == result[1].value.networkActivity
            nodeIds  == result[1].value.nodeIds
        IN  /\ activity.total.incoming = Len(OfKind(es, "INCOMING_COMMAND"))
            /\ activity.total.outgoing = Len(OfKind(es, "SEND_DATA_REQUEST"))
            /\ activity.total.total = activity.total.incoming + activity.total.outgoing
            /\ SumOver(LAMBDA n : activity.byNode[n].incoming, nodeIds)
                  = activity.total.incoming
            /\ SumOver(LAMBDA n : activity.byNode[n].outgoing, nodeIds)
                  = activity.total.outgoing
            /\ {nodeIds[i] : i \in 1..Len(nodeIds)} = NodeIdsOf(es)
            /\ \A i \in 1..(Len(nodeIds) - 1) : nodeIds[i] < nodeIds[i + 1]

\* the summary of a log with a command from node 12, a command to node 3 and
\* a value event of node 12
C23_Witness ==
    /\ Asked("getLogSummary")
    /\ Len(queryEngine[1].entries) = 3
    /\ queryEngine[1].entries[1].kind = "INCOMING_COMMAND"
    /\ queryEngine[1].entries[1].nodeId = 12
    /\ queryEngine[1].entries[2].kind = "SEND_DATA_REQUEST"
    /\ queryEngine[1].entries[2].nodeId = 3
    /\ queryEngine[1].entries[3].kind = "VALUE_UPDATED"
    /\ queryEngine[1].entries[3].nodeId = 12
    /\ result[1].value.nodeIds = <<3, 12>>
    /\ result[1].value.networkActivity.total = [incoming |-> 1, outgoing |-> 1, total |-> 2]
    /\ result[1].value.networkActivity.byNode[12].incoming = 1

(***************************************************************************)
(* More claims about the RSSI merger                                       *)
(***************************************************************************)
\* the step hands the merger its next chunk
MergerReceives == Len(written') = Len(written) + 1

\* the chunk of such a step
MergerChunk == written'[Len(written')]

\* the step ends the input of the merger
MergerEnds == ~upstreamClosed /\ upstreamClosed'

\* milliseconds from the pending request to the chunk
SinceRequest(chunk) ==
    parseTimestamp(chunk.timestamp) - parseTimestamp(pendingRequest[1].timestamp)

\* C24: a step of the merger that gives up on the pending request emits the
\* request and then the buffered events in their order, as they were given:
\* when a new request arrives, which then is the pending one; when an event
\* other than a request arrives more than 200 ms after the pending request,
\* which is emitted right after them, a response included, and leaves
\* nothing pending; and when the input ends, which leaves nothing pending or
\* buffered.  An event up to 200 ms after the request does not make the
\* merger give up.
C24_GivesUpInOrder ==
    [][/\ (MergerReceives /\ pendingRequest # <<>>) =>
             IF IsGetBackgroundRSSIRequest(MergerChunk)
             THEN /\ rssiQueue' = pendingRequest \o bufferedEntries
                  /\ pendingRequest' = <<MergerChunk>>
                  /\ bufferedEntries' = <<>>
             ELSE IF SinceRequest(MergerChunk) > 200
             THEN /\ rssiQueue' = pendingRequest \o bufferedEntries \o <<MergerChunk>>
                  /\ pendingRequest' = <<>>
                  /\ bufferedEntries' = <<>>
             ELSE \A i \in 1..Len(rssiQueue') : rssiQueue'[i] # pendingRequest[1]
       /\ MergerEnds =>
             /\ rssiQueue' = pendingRequest \o bufferedEntries
             /\ pendingRequest' = <<>>
             /\ bufferedEntries' = <<>>]_vars

\* a request, an event buffered 100 ms later and a response with attributes
\* 301 ms after the request: the merger has emitted the three as they were
\* and holds nothing
C24_Witness ==
    /\ Len(written) = 3
    /\ IsGetBackgroundRSSIRequest(written[1])
    /\ written[2].kind = "OTHER"
    /\ IsGetBackgroundRSSIResponse(written[3])
    /\ parseTimestamp(written[3].timestamp) - parseTimestamp(written[1].timestamp) = 301
    /\ rssiQueue = written
    /\ pendingRequest = <<>> /\ bufferedEntries = <<>>

\* C25: after every transform and flush of the merger at most one request
\* is pending, and it is a GetBackgroundRSSI request; events are buffered
\* only while a request is pending; every buffered event is stamped at most
\* 200 ms after the pending request; and after flush nothing is pending or
\* buffered.
C25_MergerState ==
    /\ Len(pendingRequest) <= 1
    /\ pendingRequest # <<>> => IsGetBackgroundRSSIRequest(pendingRequest[1])
    /\ bufferedEntries # <<>> => pendingRequest # <<>>
    /\ \A i \in 1..Len(bufferedEntries) : SinceRequest(bufferedEntries[i]) <= 200
    /\ upstreamClosed => pendingRequest = <<>> /\ bufferedEntries = <<>>

\* a request is pending, with two events buffered, the second exactly 200 ms
\* after the request
C25_Witness ==
    /\ Len(written) = 3
    /\ pendingRequest = <<written[1]>>
    /\ bufferedEntries = <<written[2], written[3]>>
    /\ SinceRequest(written[3]) = 200
    /\ ~upstreamClosed

\* all the merger has emitted
MergerOutput == aggregated \o rssiQueue

\* the events of the output that are not BACKGROUND_RSSI events
PassedThrough == SelectSeq(MergerOutput, LAMBDA e : ~IsBackgroundRSSI(e))

\* the place of an event in the input
WrittenAt(e) == CHOOSE i \in 1..Len(written) : written[i] = e

\* the places of the input whose events were not passed through
Replaced ==
    {i \in 1..Len(written) : \A k \in 1..Len(PassedThrough) : PassedThrough[k] # written[i]}

\* C28: once the input of the merger has ended, the events of its output
\* other than BACKGROUND_RSSI events are events of the input, each emitted
\* once, in the order of the input; the events of the input that are not
\* among them are GetBackgroundRSSI requests and responses with attributes,
\* as many of each as there are BACKGROUND_RSSI events in the output, every
\* request before its response and replaced by a BACKGROUND_RSSI event of
\* its timestamp.
C28_NothingLostOrDuplicated ==
    upstreamClosed =>
        /\ \A k \in 1..Len(PassedThrough) :
              \E i \in 1..Len(written) : written[i] = PassedThrough[k]
        /\ \A k \in 1..(Len(PassedThrough) - 1) :
              WrittenAt(PassedThrough[k]) < WrittenAt(PassedThrough[k + 1])
        /\ LET requests  == {i \in Replaced : IsGetBackgroundRSSIRequest(written[i])}
               responses == {i \in Replaced : IsGetBackgroundRSSIResponse(written[i])}
               merged    == {k \in 1..Len(MergerOutput) : IsBackgroundRSSI(MergerOutput[k])}
           IN  /\ Replaced = requests \cup responses
               /\ Cardinality(requests) = Cardinality(merged)
               /\ Cardinality(responses) = Cardinality(merged)
               /\ \A i \in requests :
                     /\ \E j \in responses : i < j
                     /\ \E k \in merged : MergerOutput[k].timestamp = written[i].timestamp
               /\ \A i \in responses : \E j \in requests : j < i

\* the input has ended after an event, a request, a buffered event and the
\* response: the output is the two events and a BACKGROUND_RSSI event
C28_Witness ==
    /\ upstreamClosed
    /\ Len(written) = 4
    /\ written[1].kind = "OTHER"
    /\ IsGetBackgroundRSSIRequest(written[2])
    /\ written[3].kind = "OTHER"
    /\ IsGetBackgroundRSSIResponse(written[4])
    /\ Len(MergerOutput) = 3
    /\ SubSeq(MergerOutput, 1, 2) = <<written[1], written[3]>>
    /\ IsBackgroundRSSI(MergerOutput[3])
    /\ MergerOutput[3].timestamp = written[2].timestamp

(***************************************************************************)
(* The order of the aggregator's output                                    *)
(***************************************************************************)
\* the readings an event of the output stands for
Readings(e) == IF IsBackgroundRSSI(e) THEN 1 ELSE IF IsSummary(e) THEN e.samples ELSE 0

RECURSIVE ReadingsIn(_)
ReadingsIn(es) == IF es = <<>> THEN 0 ELSE Readings(Head(es)) + ReadingsIn(Tail(es))

\* the places of the events of es that are neither readings nor summaries
OtherPlaces(es) ==
    SelectSeq([i \in 1..Len(es) |-> i], LAMBDA i : Readings(es[i]) = 0)

\* C26: the events other than BACKGROUND_RSSI events leave the aggregator
\* unchanged and in the order of the input, each after the output of all the
\* readings given before it and before the output of any reading given
\* after it: the raw events and summaries emitted before it stand for
\* exactly the readings that preceded it in the input.  No summary therefore
\* combines readings from both sides of such an event.
C26_FlushBeforeOthers ==
    LET done == SubSeq(aggregated, 1, Len(aggregated) - Len(bufferedRSSIEntries))
        in   == OtherPlaces(done)
        out  == OtherPlaces(entries)
    IN  /\ Len(out) = Len(in)
        /\ \A k \in 1..Len(in) :
              /\ entries[out[k]] = done[in[k]]
              /\ ReadingsIn(SubSeq(entries, 1, out[k])) = ReadingsIn(SubSeq(done, 1, in[k]))
        /\ ReadingsIn(entries) = ReadingsIn(done)

\* a reading, another event and two more readings have passed the
\* aggregator: the three readings are not summarised
C26_Witness ==
    /\ aggregateClosed
    /\ Len(aggregated) = 4
    /\ IsBackgroundRSSI(aggregated[1])
    /\ ~IsBackgroundRSSI(aggregated[2])
    /\ IsBackgroundRSSI(aggregated[3])
    /\ IsBackgroundRSSI(aggregated[4])
    /\ entries = aggregated

(***************************************************************************)
(* The splitter and the division of the text into chunks                   *)
(***************************************************************************)
\* C27: the records CompleteLogEntries has emitted by the end of the stream
\* are those it emits when the whole text is its only chunk, in the same
\* order, however the text is divided into chunks; before the end it has
\* emitted the first of them.
C27_ChunkingIndependent ==
    /\ IsPrefix(enqueued, SplitRecords(content, SplitNL(content)))
    /\ closed => enqueued = SplitRecords(content, SplitNL(content))

\* a chunk has ended in the middle of the timestamp of the third line, after
\* the first record was emitted
C27_Witness ==
    /\ ~closed
    /\ Len(enqueued) = 1
    /\ Len(lines) = 1
    /\ Len(receiveBuffer) = 10
    /\ IsPrefix(receiveBuffer, SampleTimestamp)
    /\ pos < Len(content)


\* a search by a text query alone
ByQueryOnly(args) == DOMAIN args = {"query"} /\ NonBlank(args.query)

\* C29: whether an event is among the matches of a text query depends only
\* on that event's content and on the query: every event of the log is
\* matched exactly when the same query finds it in a log that holds nothing
\* else, whatever the other events of the log are, for plain queries,
\* auto-detected regular expressions and /pattern/flags queries alike.
C29_MatchIsLocal ==
    (Asked("searchLogEntries") /\ ByQueryOnly(result[1].args)) =>
        \A i \in 1..Len(queryEngine[1].entries) :
            (\E m \in 1..Len(result[1].value.matches) :
                 result[1].value.matches[m] = queryEngine[1].entries[i])
                <=> FoundAlone(queryEngine[1].entries[i], result[1].args.query)

(***************************************************************************)
(* The loadLogFile tool (zwave-mcp-server-core.ts:363-420, 645-651;        *)
(* mcp-server.ts:33-37, 327-351).  The handler calls the load and awaits   *)
(* the promise it returns.  When the load returns or throws, the handler's *)
(* continuation becomes a job of the microtask queue: calls.pending holds  *)
(* the calls whose continuation is queued, in the order they were queued,  *)
(* which is the order they run in.  Other jobs, among them the             *)
(* continuation of another load whose pipeline has finished, run before    *)
(* it.  calls.done holds the calls that have returned or thrown, in that   *)
(* order; call 0 is a call refused for its arguments, call i > 0 the call  *)
(* whose load is loads[i].                                                 *)
(***************************************************************************)
\* loadLogFile tool calls
MaxCalls == 2

Finished(call, isError, value) == [call |-> call, isError |-> isError, summary |-> value]

\* the tool calls made so far
CallCount == Len(loads) + Len(SelectSeq(calls.done, LAMBDA d : d.call = 0))

\* the continuation of the handler of call i is queued
Queued(i) == [calls EXCEPT !.pending = Append(@, i)]

\* the dynamic parts of the state the tool handler leaves alone
exceptCalls == <<splitVars, stageVars, detectVars, aggregateVars>>

\* the handler with a filePath that is not a string: McpError InvalidParams
CallToolInvalidParams ==
    /\ CallCount < MaxCalls
    /\ calls' = [calls EXCEPT !.done = Append(@, Finished(0, TRUE, <<>>))]
    /\ UNCHANGED <<loads, queryEngine, result, summary>>

\* the handler with a filePath, up to the first await of the load it calls
CallToolLoadLogFile ==
    /\ CallCount < MaxCalls
    /\ LoadLogFileFromPath
    /\ UNCHANGED calls

\* the handler after "await loadLogFileFromPath": the summary of the engine
\* installed now is the response; after a load that threw, the catch block
\* throws an McpError
CallToolResumes ==
    /\ calls.pending # <<>>
    /\ calls' = [pending |-> Tail(calls.pending),
                 done    |-> Append(calls.done,
                     IF loads[Head(calls.pending)].phase = "loaded"
                     THEN Finished(Head(calls.pending), FALSE,
                                   <<getLogSummary(queryEngine[1])>>)
                     ELSE Finished(Head(calls.pending), TRUE, <<>>))]
    /\ UNCHANGED <<loads, queryEngine, result, summary>>

CallInit == SplitIdle /\ StagesIdle /\ DetectIdle /\ AggregateIdle /\ EngineIdle

CallNext ==
    \/ CallToolInvalidParams /\ UNCHANGED exceptCalls
    \/ CallToolLoadLogFile /\ UNCHANGED exceptCalls
    \/ \E i \in 1..Len(loads) : \E logContent \in LoadLogs :
           ReadFileResolves(i, logContent) /\ UNCHANGED exceptServer
    \/ \E i \in 1..Len(loads) : ReadFileRejects(i) /\ calls' = Queued(i) /\ UNCHANGED exceptCalls
    \/ \E i \in 1..Len(loads) : ProcessResolves(i) /\ calls' = Queued(i) /\ UNCHANGED exceptCalls
    \/ \E i \in 1..Len(loads) : ProcessRejects(i) /\ calls' = Queued(i) /\ UNCHANGED exceptCalls
    \/ CallToolResumes /\ UNCHANGED exceptCalls

CallSpec == CallInit /\ [][CallNext]_vars

\* every successful call has returned the summary of the log it loaded
OwnSummary ==
    \A n \in 1..Len(calls.done) :
        ~calls.done[n].isError =>
            calls.done[n].summary
                = <<getLogSummary(LogQueryEngine(
                        processLogContent(loads[calls.done[n].call].content[1])))>>

\* every call made has finished
AllDone == CallCount = Len(calls.done)

\* the successful calls, in the order they finished
Successful == SelectSeq(calls.done, LAMBDA d : ~d.isError)

\* once every call has finished, the engine is the one of the successful
\* call that finished last
LastWins ==
    (AllDone /\ Successful # <<>>) =>
        /\ queryEngine # <<>>
        /\ BuiltFrom(queryEngine[1], loads[Successful[Len(Successful)].call].content[1])

\* C30: when loadLogFile tool calls overlap, each successful call returns
\* the summary of the log that this call loaded, and once every call has
\* finished the installed engine is the one built by the call that finished
\* last.
C30_OverlappingLoads == OwnSummary /\ LastWins

=============================================================================
